---- MODULE Spec2Model ----
(***************************************************************************)
(* A model of the mf2-i18n toolchain: the MF2 message AST, its validator   *)
(* and compiler, the stack-machine interpreter, the binary pack codec,     *)
(* language-tag normalisation and negotiation, the catalog chain_catalogs and the   *)
(* runtime loader.  Indices are 0-based as in the Rust code; a TLA+        *)
(* sequence s holds the element of index i at s[i + 1].                    *)
(***************************************************************************)
EXTENDS Integers, Sequences, FiniteSets, TLC

VARIABLES
    \* build and execution of one message
    stage, message, diagnostics, program, args, backend, outcome,
    \* pack codec
    pstage, pack_input, pack_bytes, hash_given, decoded,
    \* language tags and negotiation
    tstage, raw_tag, parsed, reparsed,
    nstage, req_tags, sup_tags, def_tag, negotiation,
    \* catalog chain_catalogs
    cstage, chain_catalogs, overlay_catalog, lookup_id, found, found_with_overlay,
    \* runtime load and format
    lstage, release, verified, loaded, walk, formatted,
    \* execution of a program one loop iteration at a time
    rstage, run_program, run_args, run_machine, run_result,
    \* lexer
    xstage, lex_input, lexed,
    \* extraction over files
    estage, files_in, extracted,
    \* source scanner
    sstage, scan_text, scanned,
    \* build-time id map
    istage, build_ids, inserted

msg_vars == <<stage, message, diagnostics, program, args, backend, outcome>>
pack_vars == <<pstage, pack_input, pack_bytes, hash_given, decoded>>
tag_vars == <<tstage, raw_tag, parsed, reparsed>>
neg_vars == <<nstage, req_tags, sup_tags, def_tag, negotiation>>
chain_vars == <<cstage, chain_catalogs, overlay_catalog, lookup_id, found, found_with_overlay>>
load_vars == <<lstage, release, verified, loaded, walk, formatted>>
run_vars == <<rstage, run_program, run_args, run_machine, run_result>>
lex_vars == <<xstage, lex_input, lexed>>
extract_vars == <<estage, files_in, extracted>>
scan_vars == <<sstage, scan_text, scanned>>
idmap_vars == <<istage, build_ids, inserted>>
tool_vars == <<run_vars, lex_vars, extract_vars, scan_vars, idmap_vars>>
core_vars == <<msg_vars, pack_vars, tag_vars, neg_vars, chain_vars, load_vars>>
vars == <<core_vars, tool_vars>>

\* The value of a variable that the specification at hand does not use.
Idle == "idle"

MsgIdle == stage = Idle /\ message = Idle /\ diagnostics = Idle /\ program = Idle
           /\ args = Idle /\ backend = Idle /\ outcome = Idle
PackIdle == pstage = Idle /\ pack_input = Idle /\ pack_bytes = Idle
            /\ hash_given = Idle /\ decoded = Idle
TagIdle == tstage = Idle /\ raw_tag = Idle /\ parsed = Idle /\ reparsed = Idle
NegIdle == nstage = Idle /\ req_tags = Idle /\ sup_tags = Idle
           /\ def_tag = Idle /\ negotiation = Idle
ChainIdle == cstage = Idle /\ chain_catalogs = Idle /\ overlay_catalog = Idle /\ lookup_id = Idle
             /\ found = Idle /\ found_with_overlay = Idle
LoadIdle == lstage = Idle /\ release = Idle /\ verified = Idle /\ loaded = Idle
            /\ walk = Idle /\ formatted = Idle
RunIdle == rstage = Idle /\ run_program = Idle /\ run_args = Idle /\ run_machine = Idle
           /\ run_result = Idle
LexIdle == xstage = Idle /\ lex_input = Idle /\ lexed = Idle
ExtractIdle == estage = Idle /\ files_in = Idle /\ extracted = Idle
ScanIdle == sstage = Idle /\ scan_text = Idle /\ scanned = Idle
IdMapIdle == istage = Idle /\ build_ids = Idle /\ inserted = Idle
ToolIdle == RunIdle /\ LexIdle /\ ExtractIdle /\ ScanIdle /\ IdMapIdle
CoreIdle == MsgIdle /\ PackIdle /\ TagIdle /\ NegIdle /\ ChainIdle /\ LoadIdle

(***************************************************************************)
(* Option<T>: None is the empty sequence, Some(x) the one-element one.     *)
(***************************************************************************)
None == <<>>
Some(x) == <<x>>
IsSome(o) == o # <<>>
Unwrap(o) == o[1]

At(seq, i) == seq[i + 1]
InRange(seq, i) == i >= 0 /\ i < Len(seq)

(***************************************************************************)
(* Results: Ok(v) and Err(kind, text), after CoreResult<T>.                *)
(***************************************************************************)
Ok(v) == [ok |-> TRUE, value |-> v]
Err(kind, text) == [ok |-> FALSE, kind |-> kind, text |-> text]
InvalidInput(text) == Err("InvalidInput", text)
Unsupported(text) == Err("Unsupported", text)

(***************************************************************************)
(* The AST of the parser.                                                  *)
(***************************************************************************)
Text(v) == [seg |-> "Text", value |-> v]
Variable(name, formatter) == [seg |-> "Variable", name |-> name, formatter |-> formatter]
Ident(s) == [k |-> "Ident", s |-> s]
Exact(n) == [k |-> "Exact", n |-> n]
Other == [k |-> "Other"]
SelectCase(key, is_default, value) == [key |-> key, is_default |-> is_default, value |-> value]

\* parse_expr: the kind of a select is Plural when the selector carries the
\* formatter `plural` or when some case key is an exact number.
SelectKindOf(formatter, cases) ==
    IF formatter = Some("plural") \/ (\E i \in 1..Len(cases) : cases[i].key.k = "Exact")
    THEN "Plural" ELSE "Select"

SelectExpr(selector, formatter, cases) ==
    [seg |-> "Select", selector |-> selector, cases |-> cases,
     kind |-> SelectKindOf(formatter, cases)]

(***************************************************************************)
(* validator.rs.  A MessageSpec is a key and a sequence of ArgSpec; the    *)
(* diagnostics are modelled by the sequence of their codes.                *)
(***************************************************************************)
ArgSpec(name, arg_type) == [name |-> name, arg_type |-> arg_type]

\* spec.args.iter().find(|arg| arg.name == name)
FindArg(spec_args, name) ==
    IF \E i \in 1..Len(spec_args) : spec_args[i].name = name
    THEN Some(spec_args[CHOOSE i \in 1..Len(spec_args) :
                  /\ spec_args[i].name = name
                  /\ \A j \in 1..(i - 1) : spec_args[j].name # name])
    ELSE None

is_known_formatter(name) ==
    name \in {"number", "date", "time", "datetime", "unit", "currency", "identity"}

formatter_accepts_arg(formatter, arg_type) ==
    CASE formatter = "number" -> arg_type \in {"Number", "Any"}
      [] formatter \in {"date", "time", "datetime"} -> arg_type \in {"DateTime", "Any"}
      [] formatter = "unit" -> arg_type \in {"Unit", "Any"}
      [] formatter = "currency" -> arg_type \in {"Currency", "Any"}
      [] formatter = "identity" -> TRUE
      [] OTHER -> FALSE

validate_var(var, spec_args) ==
    LET arg == FindArg(spec_args, var.name) IN
    IF IsSome(arg)
    THEN IF IsSome(var.formatter)
         THEN IF ~is_known_formatter(Unwrap(var.formatter)) THEN <<"MF2E030">>
              ELSE IF ~formatter_accepts_arg(Unwrap(var.formatter), Unwrap(arg).arg_type)
                   THEN <<"MF2E021">>
                   ELSE <<>>
         ELSE <<>>
    ELSE <<"MF2E020">>

HasOtherCase(select) ==
    \E i \in 1..Len(select.cases) :
        select.cases[i].key.k = "Other" \/ select.cases[i].is_default

\* A validator that does not look into case bodies: what the statement about
\* nested selects is compared against.
ValidateCasesShallow(cases, spec_args) == <<>>

RECURSIVE validate_segments(_, _)
RECURSIVE ValidateCases(_, _)

validate_select(select, spec_args) ==
    LET arg == FindArg(spec_args, select.selector)
        required == IF select.kind = "Select" THEN "String" ELSE "Number"
        missing == IF ~HasOtherCase(select) THEN <<"MF2E010">> ELSE <<>>
        typed == IF IsSome(arg)
                 THEN IF Unwrap(arg).arg_type # "Any" /\ Unwrap(arg).arg_type # required
                      THEN <<"MF2E021">> ELSE <<>>
                 ELSE <<"MF2E020">>
    IN missing \o typed \o ValidateCases(select.cases, spec_args)

ValidateCases(cases, spec_args) ==
    IF cases = <<>> THEN <<>>
    ELSE validate_segments(Head(cases).value, spec_args)
         \o ValidateCases(Tail(cases), spec_args)

validate_segments(segments, spec_args) ==
    IF segments = <<>> THEN <<>>
    ELSE LET segment == Head(segments)
             here == CASE segment.seg = "Text" -> <<>>
                       [] segment.seg = "Variable" -> validate_var(segment, spec_args)
                       [] segment.seg = "Select" -> validate_select(segment, spec_args)
         IN here \o validate_segments(Tail(segments), spec_args)

validate_message(msg, spec_args) == validate_segments(msg, spec_args)

(***************************************************************************)
(* bytecode.rs: opcodes, case tables and the program.                      *)
(***************************************************************************)
EmitText(sidx) == [op |-> "EmitText", sidx |-> sidx]
EmitStack == [op |-> "EmitStack"]
PushStr(sidx) == [op |-> "PushStr", sidx |-> sidx]
PushNum(nidx) == [op |-> "PushNum", nidx |-> nidx]
PushArg(aidx) == [op |-> "PushArg", aidx |-> aidx]
Dup == [op |-> "Dup"]
Pop == [op |-> "Pop"]
CallFmt(fid, opt_count) == [op |-> "CallFmt", fid |-> fid, opt_count |-> opt_count]
Select(aidx, table) == [op |-> "Select", aidx |-> aidx, table |-> table]
SelectPlural(aidx, ruleset, table) ==
    [op |-> "SelectPlural", aidx |-> aidx, ruleset |-> ruleset, table |-> table]
Jump(rel) == [op |-> "Jump", rel |-> rel]
End == [op |-> "End"]

KeyString(sidx) == [k |-> "String", sidx |-> sidx]
KeyExact(n) == [k |-> "Exact", n |-> n]
KeyCategory(c) == [k |-> "Category", c |-> c]
KeyOther == [k |-> "Other"]
CaseEntry(key, target) == [key |-> key, target |-> target]

NewProgram ==
    [opcodes |-> <<>>, string_pool |-> <<>>, number_pool |-> <<>>,
     case_tables |-> <<>>, arg_names |-> <<>>]

(***************************************************************************)
(* compiler.rs.  A compiler is the program under construction and the      *)
(* arg_indices map, held as a set of (name, index) pairs.                  *)
(***************************************************************************)
NewCompiler == [program |-> NewProgram, arg_indices |-> {}]

PushOpcode(c, opcode) ==
    [c EXCEPT !.program.opcodes = Append(@, opcode)]

\* StringPool::push: appends, never deduplicates; the index is the old length.
PushString(c, value) ==
    [c EXCEPT !.program.string_pool = Append(@, value)]

\* Compiler::arg_index returns (compiler, index).
arg_index(c, name) ==
    IF \E e \in c.arg_indices : e.name = name
    THEN <<c, (CHOOSE e \in c.arg_indices : e.name = name).index>>
    ELSE LET index == Len(c.program.arg_names) IN
         <<[c EXCEPT !.program.arg_names = Append(@, name),
                     !.arg_indices = @ \cup {[name |-> name, index |-> index]}],
           index>>

formatter_id(name) ==
    CASE name = "number" -> "Number"
      [] name = "date" -> "Date"
      [] name = "time" -> "Time"
      [] name = "datetime" -> "DateTime"
      [] name = "unit" -> "Unit"
      [] name = "currency" -> "Currency"
      [] OTHER -> "Identity"

\* A compile_case_key that keeps the key of a `*` case: what the well-formed
\* program statement is compared against.
compile_case_key_keeping_default(c, key, is_default) ==
    CASE key.k = "Other" -> <<c, KeyOther>>
      [] key.k = "Exact" -> <<c, KeyExact(key.n)>>
      [] key.k = "Ident" ->
           <<PushString(c, key.s), KeyString(Len(c.program.string_pool))>>

\* compile_case_key returns (compiler, key); an identifier key is pushed onto
\* the string pool.
compile_case_key(c, key, is_default) ==
    IF is_default THEN <<c, KeyOther>>
    ELSE CASE key.k = "Other" -> <<c, KeyOther>>
           [] key.k = "Exact" -> <<c, KeyExact(key.n)>>
           [] key.k = "Ident" ->
                <<PushString(c, key.s), KeyString(Len(c.program.string_pool))>>

compile_var(c, var) ==
    LET r == arg_index(c, var.name)
        c1 == PushOpcode(r[1], PushArg(r[2]))
        c2 == IF IsSome(var.formatter)
              THEN PushOpcode(c1, CallFmt(formatter_id(Unwrap(var.formatter)), 0))
              ELSE c1
    IN PushOpcode(c2, EmitStack)

\* The index compile_select gives its Select opcode: the number of case
\* tables pushed so far, read before the cases are compiled (line 64).
SelectTableIndex(c) == Len(c.program.case_tables)

SelectOpcode(kind, aidx, table_idx) ==
    IF kind = "Plural" THEN SelectPlural(aidx, "Cardinal", table_idx)
    ELSE Select(aidx, table_idx)

\* Back-patching (lines 93-98): every placeholder at jump_pos gets
\* rel = end - jump_pos.
PatchJumps(opcodes, jumps, end) ==
    [i \in 1..Len(opcodes) |->
        IF (i - 1) \in jumps /\ opcodes[i].op = "Jump"
        THEN Jump(end - (i - 1)) ELSE opcodes[i]]

RECURSIVE CompileSegments(_, _)
RECURSIVE CompileCases(_, _, _, _)

\* The loop over select.cases (lines 81-91): returns (compiler, entries, jumps).
CompileCases(c, cases, entries, jumps) ==
    IF cases = <<>> THEN <<c, entries, jumps>>
    ELSE LET case == Head(cases)
             start == Len(c.program.opcodes)
             k == compile_case_key(c, case.key, case.is_default)
             c1 == CompileSegments(k[1], case.value)
             jump_pos == Len(c1.program.opcodes)
             c2 == PushOpcode(c1, Jump(0))
         IN CompileCases(c2, Tail(cases),
                         Append(entries, CaseEntry(k[2], start)),
                         jumps \cup {jump_pos})

compile_select(c, select) ==
    LET r == arg_index(c, select.selector)
        aidx == r[2]
        table_idx == SelectTableIndex(r[1])
        select_pos == Len(r[1].program.opcodes)
        c1 == PushOpcode(r[1], SelectOpcode(select.kind, aidx, table_idx))
        done == CompileCases(c1, select.cases, <<>>, {})
        c2 == done[1]
        end == Len(c2.program.opcodes)
        patched == PatchJumps(c2.program.opcodes, done[3], end)
        rewritten == [patched EXCEPT ![select_pos + 1] =
                          SelectOpcode(select.kind, aidx, table_idx)]
    IN [c2 EXCEPT !.program.opcodes = rewritten,
                  !.program.case_tables = Append(@, done[2])]

CompileSegments(c, segments) ==
    IF segments = <<>> THEN c
    ELSE LET segment == Head(segments)
             c1 == CASE segment.seg = "Text" ->
                         PushOpcode(PushString(c, segment.value),
                                    EmitText(Len(c.program.string_pool)))
                     [] segment.seg = "Variable" -> compile_var(c, segment)
                     [] segment.seg = "Select" -> compile_select(c, segment)
         IN CompileSegments(c1, Tail(segments))

compile_message(msg) ==
    PushOpcode(CompileSegments(NewCompiler, msg), End).program

(***************************************************************************)
(* args.rs: values and the argument bag (a function from names to values). *)
(* Numbers are the integer-valued f64s.                                    *)
(***************************************************************************)
Str(s) == [t |-> "Str", s |-> s]
Num(n) == [t |-> "Num", n |-> n]
Bool(b) == [t |-> "Bool", b |-> b]
AnyValue == [t |-> "Any"]

\* Args::require
require(a, name) ==
    IF name \in DOMAIN a THEN Ok(a[name]) ELSE InvalidInput("missing argument")

(***************************************************************************)
(* format_backend.rs.  A backend is a FormatBackend implementation: its    *)
(* plural rules and the prefix it renders numbers with.  "basic" is        *)
(* BasicFormatBackend, "test" the TestBackend of the interpreter tests,    *)
(* "rules" a backend with a real `one` category.                           *)
(***************************************************************************)
Backends == {"basic", "test", "rules"}

plural_category(be, number) ==
    IF be = "rules" /\ number = 1 THEN "One" ELSE "Other"

format_number(be, number) ==
    IF be = "test" THEN "num:" \o ToString(number) ELSE ToString(number)

format_value_default(value) ==
    CASE value.t = "Str" -> Ok(value.s)
      [] value.t = "Num" -> Ok(ToString(value.n))
      [] value.t = "Bool" -> Ok(IF value.b THEN "true" ELSE "false")
      [] value.t = "Any" -> Unsupported("identity formatting for any value")

format_value(be, formatter, value) ==
    CASE formatter = "Number" ->
            IF value.t = "Num" THEN Ok(format_number(be, value.n))
            ELSE InvalidInput("formatter expects number")
      [] formatter \in {"Date", "Time", "DateTime"} ->
            InvalidInput("formatter expects datetime")
      [] formatter = "Unit" -> InvalidInput("formatter expects unit")
      [] formatter = "Currency" -> InvalidInput("formatter expects currency")
      [] formatter = "Identity" -> format_value_default(value)

(***************************************************************************)
(* interpreter.rs.                                                         *)
(***************************************************************************)
clone_value(value) ==
    IF value.t = "Any" THEN Unsupported("cloning any value") ELSE Ok(value)

get_case_table(p, table_idx) ==
    IF InRange(p.case_tables, table_idx) THEN Ok(At(p.case_tables, table_idx))
    ELSE InvalidInput("case table index out of bounds")

\* The indices (1-based) of the entries of a table that satisfy a test.
Matching(table, Test(_)) == {i \in 1..Len(table) : Test(table[i])}
First(S) == CHOOSE i \in S : \A j \in S : i <= j
Last(S) == CHOOSE i \in S : \A j \in S : j <= i

\* match_case: the first String entry equal to the value, else the Other
\* entry the loop saw last.
match_case(table, p, value) ==
    LET hits == Matching(table, LAMBDA e : /\ e.key.k = "String"
                                           /\ InRange(p.string_pool, e.key.sidx)
                                           /\ At(p.string_pool, e.key.sidx) = value)
        others == Matching(table, LAMBDA e : e.key.k = "Other")
    IN IF hits # {} THEN Ok(table[First(hits)].target)
       ELSE IF others # {} THEN Ok(table[Last(others)].target)
       ELSE InvalidInput("missing other case")

match_exact_number(table, value) ==
    IF value < 0 THEN None
    ELSE LET hits == Matching(table, LAMBDA e : e.key.k = "Exact" /\ e.key.n = value)
         IN IF hits # {} THEN Some(table[First(hits)].target) ELSE None

match_plural_category(table, category) ==
    LET hits == Matching(table, LAMBDA e : e.key.k = "Category" /\ e.key.c = category)
    IN IF hits # {} THEN Some(table[First(hits)].target) ELSE None

match_other(table) ==
    LET hits == Matching(table, LAMBDA e : e.key.k = "Other")
    IN IF hits # {} THEN Ok(table[First(hits)].target)
       ELSE InvalidInput("missing other case")

select_case(p, a, aidx, table_idx) ==
    IF ~InRange(p.arg_names, aidx) THEN InvalidInput("arg index out of bounds")
    ELSE LET value == require(a, At(p.arg_names, aidx)) IN
         IF ~value.ok THEN value
         ELSE IF value.value.t # "Str" THEN InvalidInput("select expects string")
         ELSE LET table == get_case_table(p, table_idx) IN
              IF ~table.ok THEN table
              ELSE match_case(table.value, p, value.value.s)

\* select_plural_case with a note of whether backend.plural_category was
\* called (line 137).
SelectPluralWith(p, a, be, aidx, ruleset, table_idx) ==
    LET Answer(target, asked) == [target |-> target, asked |-> asked] IN
    IF ~InRange(p.arg_names, aidx)
    THEN Answer(InvalidInput("arg index out of bounds"), FALSE)
    ELSE LET value == require(a, At(p.arg_names, aidx)) IN
         IF ~value.ok THEN Answer(value, FALSE)
         ELSE IF value.value.t # "Num"
              THEN Answer(InvalidInput("plural expects number"), FALSE)
         ELSE LET table == get_case_table(p, table_idx) IN
              IF ~table.ok THEN Answer(table, FALSE)
              ELSE LET exact == match_exact_number(table.value, value.value.n) IN
                   IF IsSome(exact) THEN Answer(Ok(Unwrap(exact)), FALSE)
                   ELSE LET cat == IF ruleset = "Cardinal"
                                   THEN match_plural_category(
                                            table.value,
                                            plural_category(be, value.value.n))
                                   ELSE None
                        IN IF IsSome(cat) THEN Answer(Ok(Unwrap(cat)), ruleset = "Cardinal")
                           ELSE Answer(match_other(table.value), ruleset = "Cardinal")

\* A select_plural_case that tries the category before the exact number:
\* what the statement about the order is compared against.
select_plural_case_category_first(p, a, be, aidx, ruleset, table_idx) ==
    IF ~(/\ InRange(p.arg_names, aidx)
         /\ At(p.arg_names, aidx) \in DOMAIN a
         /\ a[At(p.arg_names, aidx)].t = "Num"
         /\ InRange(p.case_tables, table_idx))
    THEN SelectPluralWith(p, a, be, aidx, ruleset, table_idx).target
    ELSE LET table == At(p.case_tables, table_idx)
             number == a[At(p.arg_names, aidx)].n
             cat == match_plural_category(table, plural_category(be, number))
             exact == match_exact_number(table, number)
         IN IF IsSome(cat) THEN Ok(Unwrap(cat))
            ELSE IF IsSome(exact) THEN Ok(Unwrap(exact))
            ELSE match_other(table)

select_plural_case(p, a, be, aidx, ruleset, table_idx) ==
    SelectPluralWith(p, a, be, aidx, ruleset, table_idx).target

\* A machine state of `execute`: the program counter, the value stack (its
\* top is the last element) and the output built so far.
Machine(pc, stack, output) == [pc |-> pc, stack |-> stack, output |-> output]
Continue(m) == [done |-> FALSE, m |-> m]
Finish(result) == [done |-> TRUE, result |-> result]
Underflow == Finish(InvalidInput("stack underflow"))
PopStack(stack) == SubSeq(stack, 1, Len(stack) - 1)

\* One iteration of the while loop of `execute` (lines 18-94).
ExecStep(p, a, be, m) ==
    IF ~(m.pc < Len(p.opcodes)) THEN Finish(Ok(m.output))
    ELSE LET opcode == At(p.opcodes, m.pc)
             next == m.pc + 1
         IN
    CASE opcode.op = "EmitText" ->
            IF InRange(p.string_pool, opcode.sidx)
            THEN Continue(Machine(next, m.stack,
                                  m.output \o At(p.string_pool, opcode.sidx)))
            ELSE Finish(InvalidInput("string index out of bounds"))
      [] opcode.op = "EmitStack" ->
            IF m.stack = <<>> THEN Underflow
            ELSE LET rendered == format_value(be, "Identity", m.stack[Len(m.stack)]) IN
                 IF rendered.ok
                 THEN Continue(Machine(next, PopStack(m.stack),
                                       m.output \o rendered.value))
                 ELSE Finish(rendered)
      [] opcode.op = "PushStr" ->
            IF InRange(p.string_pool, opcode.sidx)
            THEN Continue(Machine(next,
                                  Append(m.stack, Str(At(p.string_pool, opcode.sidx))),
                                  m.output))
            ELSE Finish(InvalidInput("string index out of bounds"))
      [] opcode.op = "PushNum" ->
            IF InRange(p.number_pool, opcode.nidx)
            THEN Continue(Machine(next,
                                  Append(m.stack, Num(At(p.number_pool, opcode.nidx))),
                                  m.output))
            ELSE Finish(InvalidInput("number index out of bounds"))
      [] opcode.op = "PushArg" ->
            IF ~InRange(p.arg_names, opcode.aidx)
            THEN Finish(InvalidInput("arg index out of bounds"))
            ELSE LET value == require(a, At(p.arg_names, opcode.aidx)) IN
                 IF ~value.ok THEN Finish(value)
                 ELSE LET cloned == clone_value(value.value) IN
                      IF ~cloned.ok THEN Finish(cloned)
                      ELSE Continue(Machine(next, Append(m.stack, cloned.value),
                                            m.output))
      [] opcode.op = "Dup" ->
            IF m.stack = <<>> THEN Underflow
            ELSE LET cloned == clone_value(m.stack[Len(m.stack)]) IN
                 IF ~cloned.ok THEN Finish(cloned)
                 ELSE Continue(Machine(next, Append(m.stack, cloned.value), m.output))
      [] opcode.op = "Pop" ->
            IF m.stack = <<>> THEN Underflow
            ELSE Continue(Machine(next, PopStack(m.stack), m.output))
      [] opcode.op = "CallFmt" ->
            IF opcode.opt_count # 0
            THEN Finish(Unsupported("formatter options not supported"))
            ELSE IF m.stack = <<>> THEN Underflow
            ELSE LET rendered == format_value(be, opcode.fid, m.stack[Len(m.stack)]) IN
                 IF rendered.ok
                 THEN Continue(Machine(next,
                                       Append(PopStack(m.stack), Str(rendered.value)),
                                       m.output))
                 ELSE Finish(rendered)
      [] opcode.op = "Select" ->
            LET target == select_case(p, a, opcode.aidx, opcode.table) IN
            IF target.ok THEN Continue(Machine(target.value, m.stack, m.output))
            ELSE Finish(target)
      [] opcode.op = "SelectPlural" ->
            LET target == select_plural_case(p, a, be, opcode.aidx, opcode.ruleset,
                                             opcode.table) IN
            IF target.ok THEN Continue(Machine(target.value, m.stack, m.output))
            ELSE Finish(target)
      [] opcode.op = "Jump" ->
            IF m.pc + opcode.rel < 0 THEN Finish(InvalidInput("jump underflow"))
            ELSE Continue(Machine(m.pc + opcode.rel, m.stack, m.output))
      [] opcode.op = "End" -> Finish(Ok(m.output))

\* The number of loop iterations after which a run is given up as not
\* terminating.
MaxSteps == 40

Diverges == Err("Diverges", "no result within MaxSteps iterations")

RECURSIVE Run(_, _, _, _, _)
Run(p, a, be, m, fuel) ==
    IF fuel = 0 THEN Diverges
    ELSE LET step == ExecStep(p, a, be, m) IN
         IF step.done THEN step.result ELSE Run(p, a, be, step.m, fuel - 1)

execute(p, a, be) == Run(p, a, be, Machine(0, <<>>, ""), MaxSteps)

(***************************************************************************)
(* Building and running one message: the inputs.                           *)
(***************************************************************************)
\* The longest case list of a top-level select, and the largest number an
\* argument takes.
MaxCases == 2
MaxNum == 2

\* The MessageSpec the messages are validated against.
MessageSpecArgs ==
    <<ArgSpec("a", "String"), ArgSpec("b", "String"), ArgSpec("n", "Number"),
      ArgSpec("w", "Any")>>

\* Selects that occur inside case bodies: with and without an Other case.
InnerSelects ==
    {SelectExpr("b", None, <<SelectCase(Ident("x"), FALSE, <<Text("I")>>),
                             SelectCase(k, FALSE, <<Text("J")>>)>>) :
        k \in {Other, Ident("y")}}

CaseBodies == {<<Text("T")>>, <<Variable("a", None)>>} \cup {<<s>> : s \in InnerSelects}

\* [x], *[x], [other] and [=1]
CaseHeads == {<<Ident("x"), FALSE>>, <<Ident("x"), TRUE>>, <<Other, FALSE>>,
              <<Exact(1), FALSE>>}

OuterCases == {SelectCase(h[1], h[2], body) : h \in CaseHeads, body \in CaseBodies}

CaseLists == UNION {[1..n -> OuterCases] : n \in 0..MaxCases}

\* { $a -> ... }, { $n -> ... } and { $n :plural -> ... }
Selectors == {<<"a", None>>, <<"n", None>>, <<"n", Some("plural")>>}

OuterSelects == {SelectExpr(sel[1], sel[2], cases) : sel \in Selectors, cases \in CaseLists}

SiblingSelect ==
    SelectExpr("b", None, <<SelectCase(Ident("x"), FALSE, <<Text("K")>>),
                            SelectCase(Other, TRUE, <<Text("L")>>)>>)

\* Messages on the argument of type Any: { $w }, { $w -> ... } and
\* { $w :plural -> ... }.
AnyMessages ==
    {<<Variable("w", None)>>,
     <<SelectExpr("w", None, <<SelectCase(Ident("x"), FALSE, <<Text("T")>>),
                               SelectCase(Other, FALSE, <<Text("U")>>)>>)>>,
     <<SelectExpr("w", Some("plural"), <<SelectCase(Exact(1), FALSE, <<Text("T")>>),
                                         SelectCase(Other, FALSE, <<Text("U")>>)>>)>>}

Messages ==
    {<<Text("T"), Variable("n", Some("number"))>>, <<Variable("q", None)>>,
     <<Variable("a", Some("weird"))>>, <<Variable("q", Some("weird"))>>}
    \cup {<<s>> : s \in OuterSelects}
    \cup {<<Text("P"), s, Text("S")>> : s \in OuterSelects}
    \cup {<<s, SiblingSelect>> : s \in OuterSelects}
    \cup AnyMessages

\* The argument of type Any takes a string with every value of the other
\* arguments, and a number and a Value::Any with one of them.
ArgBags ==
    {[name \in {"a", "b", "n", "w"} |->
        CASE name = "a" -> Str(va) [] name = "b" -> Str(vb) [] name = "n" -> Num(vn)
          [] name = "w" -> Str("x")] :
        va \in {"x", "z"}, vb \in {"x", "z"}, vn \in 1..MaxNum}
    \cup {[name \in {"a", "b", "n", "w"} |->
              CASE name = "a" -> Str("x") [] name = "b" -> Str("x") [] name = "n" -> Num(1)
                [] name = "w" -> vw] :
              vw \in {Num(1), AnyValue}}

(***************************************************************************)
(* Building and running one message: the steps.                            *)
(***************************************************************************)
MsgInit ==
    /\ stage = "parsed"
    /\ message \in Messages
    /\ diagnostics = <<>>
    /\ program = NewProgram
    /\ args = Idle
    /\ backend = Idle
    /\ outcome = Idle

\* validate_message
Validate ==
    /\ stage = "parsed"
    /\ diagnostics' = validate_message(message, MessageSpecArgs)
    /\ stage' = "validated"
    /\ UNCHANGED <<message, program, args, backend, outcome>>

\* compile_message: the build compiles what it parsed, validated or not.
Compile ==
    /\ stage = "validated"
    /\ program' = compile_message(message)
    /\ stage' = "compiled"
    /\ UNCHANGED <<message, diagnostics, args, backend, outcome>>

\* execute(program, args, backend)
Execute ==
    /\ stage = "compiled"
    /\ \E a \in ArgBags, be \in Backends :
          /\ args' = a
          /\ backend' = be
          /\ outcome' = execute(program, a, be)
    /\ stage' = "executed"
    /\ UNCHANGED <<message, diagnostics, program>>

Init == MsgInit /\ PackIdle /\ TagIdle /\ NegIdle /\ ChainIdle /\ LoadIdle /\ ToolIdle

Next ==
    \/ Validate /\ UNCHANGED <<pack_vars, tag_vars, neg_vars, chain_vars, load_vars, tool_vars>>
    \/ Compile /\ UNCHANGED <<pack_vars, tag_vars, neg_vars, chain_vars, load_vars, tool_vars>>
    \/ Execute /\ UNCHANGED <<pack_vars, tag_vars, neg_vars, chain_vars, load_vars, tool_vars>>

Spec == Init /\ [][Next]_vars

(***************************************************************************)
(* What a message means, read off the source text: the text segments, the  *)
(* rendered variables and, for a select, the body of the case chosen by    *)
(* its own selector.                                                       *)
(***************************************************************************)
IsOtherCase(case) == case.is_default \/ case.key.k = "Other"

CaseMatches(select, case, value) ==
    /\ ~case.is_default
    /\ \/ select.kind = "Select" /\ case.key.k = "Ident" /\ value.t = "Str"
          /\ case.key.s = value.s
       \/ select.kind = "Plural" /\ case.key.k = "Exact" /\ value.t = "Num"
          /\ case.key.n = value.n

ChosenCase(select, a) ==
    LET value == a[select.selector]
        hits == {i \in 1..Len(select.cases) : CaseMatches(select, select.cases[i], value)}
        others == {i \in 1..Len(select.cases) : IsOtherCase(select.cases[i])}
    IN select.cases[IF hits # {} THEN First(hits) ELSE First(others)]

Rendered(var, a, be) ==
    IF var.formatter = Some("number") THEN format_number(be, a[var.name].n)
    ELSE format_value_default(a[var.name]).value

RECURSIVE Expected(_, _, _)
Expected(segments, a, be) ==
    IF segments = <<>> THEN ""
    ELSE LET segment == Head(segments)
             here == CASE segment.seg = "Text" -> segment.value
                       [] segment.seg = "Variable" -> Rendered(segment, a, be)
                       [] segment.seg = "Select" ->
                            Expected(ChosenCase(segment, a).value, a, be)
         IN here \o Expected(Tail(segments), a, be)

\* Every select of the message, at any depth, has exactly one case that is
\* Other or marked default.
RECURSIVE SingleOther(_)
SingleOther(segments) ==
    \A i \in 1..Len(segments) :
        segments[i].seg = "Select" =>
            /\ Cardinality({j \in 1..Len(segments[i].cases) :
                               IsOtherCase(segments[i].cases[j])}) = 1
            /\ \A j \in 1..Len(segments[i].cases) :
                  SingleOther(segments[i].cases[j].value)

\* Some case body of some top-level select holds a select.
HasNestedSelect(segments) ==
    \E i \in 1..Len(segments) :
        /\ segments[i].seg = "Select"
        /\ \E j \in 1..Len(segments[i].cases) :
              \E k \in 1..Len(segments[i].cases[j].value) :
                  segments[i].cases[j].value[k].seg = "Select"

\* The arguments a message uses are of type String or Number in its spec, so
\* that the values they take render and select.
ExactlyTyped(msg) == msg \notin AnyMessages

\* C1: for every message that passes validation, nested selects included,
\* running the compiled program yields the text segments, the rendered
\* variables and, for each select reached, the body of the case chosen by that
\* select's own selector, in source order.
C1_CompiledProgramFollowsSource ==
    (stage = "executed" /\ diagnostics = <<>> /\ SingleOther(message)
     /\ ExactlyTyped(message))
        => outcome = Ok(Expected(message, args, backend))

\* The same statement for the messages with no select inside a case body.
C1_FlatProgramFollowsSource ==
    (stage = "executed" /\ diagnostics = <<>> /\ SingleOther(message)
     /\ ExactlyTyped(message) /\ ~HasNestedSelect(message))
        => outcome = Ok(Expected(message, args, backend))

(***************************************************************************)
(* pack_encode.rs.  A pack is modelled by its header fields and its        *)
(* sections; integers keep the values the bytes hold (opcode tags,         *)
(* formatter ids, key types, blob offsets), strings stay strings.          *)
(***************************************************************************)
\* The bytes of a section that hold all of the content.
Bytes(data) == [complete |-> TRUE, data |-> data]
\* A u32 is written as its 32 bits read as a signed number, so that u32::MAX
\* is -1 and the values from 2^31 up are the negative ones.
U32_MAX == -1
\* The order of two u32 values.
U32LessEq(a, b) == IF (a < 0) = (b < 0) THEN a <= b ELSE b < 0
\* x + 1 in u32 arithmetic.
U32Increment(x) == IF x = U32_MAX THEN 0 ELSE x + 1
\* b"MF2PACK\0"
PACK_MAGIC == "MF2PACK"
HEADER_LEN == 63
SECTION_STRING_POOL == 1
SECTION_MESSAGE_INDEX == 2
SECTION_BYTECODE_BLOB == 3
SECTION_CASE_TABLES == 4
SECTION_MESSAGE_META == 5

RECURSIVE SortedSeq(_)
\* The elements of a finite set of numbers in ascending order (the iteration
\* order of a BTreeMap keyed by MessageId).
SortedSeq(S) ==
    IF S = {} THEN <<>>
    ELSE LET least == CHOOSE x \in S : \A y \in S : U32LessEq(x, y)
         IN <<least>> \o SortedSeq(S \ {least})

\* The 0-based index of the first occurrence of a value in a sequence.
IndexOf(seq, value) ==
    (CHOOSE i \in 1..Len(seq) : seq[i] = value /\ \A j \in 1..(i - 1) : seq[j] # value) - 1
Contains(seq, value) == \E i \in 1..Len(seq) : seq[i] = value

\* StringInterner: `pool` is the pool, and the map is its inverse.
NewInterner == <<>>
\* StringInterner::intern returns (interner, index).
intern(interner, value) ==
    IF Contains(interner, value) THEN <<interner, IndexOf(interner, value)>>
    ELSE <<Append(interner, value), Len(interner)>>

RECURSIVE InternAll(_, _, _)
\* Interns the strings of a sequence in order: (interner, the new indices).
InternAll(interner, strings, mapping) ==
    IF strings = <<>> THEN <<interner, mapping>>
    ELSE LET r == intern(interner, Head(strings))
         IN InternAll(r[1], Tail(strings), Append(mapping, r[2]))

RemapKey(key, mapping) ==
    IF key.k = "String" THEN KeyString(At(mapping, key.sidx)) ELSE key

\* The rewrite with the table operands left as the compiler wrote them.
RemapOpcodeKeepingTable(opcode, mapping, case_offset) ==
    CASE opcode.op = "EmitText" -> EmitText(At(mapping, opcode.sidx))
      [] opcode.op = "PushStr" -> PushStr(At(mapping, opcode.sidx))
      [] OTHER -> opcode

\* The opcode rewrite of remap_program (lines 92-116).
RemapOpcode(opcode, mapping, case_offset) ==
    CASE opcode.op = "EmitText" -> EmitText(At(mapping, opcode.sidx))
      [] opcode.op = "PushStr" -> PushStr(At(mapping, opcode.sidx))
      [] opcode.op = "Select" -> Select(opcode.aidx, opcode.table + case_offset)
      [] opcode.op = "SelectPlural" ->
            SelectPlural(opcode.aidx, opcode.ruleset, opcode.table + case_offset)
      [] OTHER -> opcode

\* remap_program returns (program_out, tables, interner).
remap_program(p, interner, case_offset) ==
    LET pooled == InternAll(interner, p.string_pool, <<>>)
        mapping == pooled[2]
        named == InternAll(pooled[1], p.arg_names, <<>>)
        tables == [t \in 1..Len(p.case_tables) |->
                      [e \in 1..Len(p.case_tables[t]) |->
                          CaseEntry(RemapKey(p.case_tables[t][e].key, mapping),
                                    p.case_tables[t][e].target)]]
        opcodes == [i \in 1..Len(p.opcodes) |->
                       RemapOpcode(p.opcodes[i], mapping, case_offset)]
        program_out == [opcodes |-> opcodes, string_pool |-> <<>>,
                        number_pool |-> p.number_pool, case_tables |-> <<>>,
                        arg_names |-> p.arg_names]
    IN <<program_out, tables, named[1]>>

\* `fid as u8`: the discriminant of FormatterId.
FormatterIdAsU8(fid) ==
    CASE fid = "Number" -> 0 [] fid = "Date" -> 1 [] fid = "Time" -> 2
      [] fid = "DateTime" -> 3 [] fid = "Unit" -> 4 [] fid = "Currency" -> 5
      [] fid = "Identity" -> 6

encode_ruleset(ruleset) == 0

encode_category(category) ==
    CASE category = "Zero" -> 0 [] category = "One" -> 1 [] category = "Two" -> 2
      [] category = "Few" -> 3 [] category = "Many" -> 4 [] category = "Other" -> 5

\* encode_opcode: the tag byte and the operands that follow it.
encode_opcode(opcode) ==
    CASE opcode.op = "EmitText" -> <<0, opcode.sidx>>
      [] opcode.op = "EmitStack" -> <<1>>
      [] opcode.op = "PushStr" -> <<2, opcode.sidx>>
      [] opcode.op = "PushNum" -> <<3, opcode.nidx>>
      [] opcode.op = "PushArg" -> <<4, opcode.aidx>>
      [] opcode.op = "Dup" -> <<5>>
      [] opcode.op = "Pop" -> <<6>>
      [] opcode.op = "CallFmt" -> <<7, FormatterIdAsU8(opcode.fid), opcode.opt_count>>
      [] opcode.op = "Select" -> <<8, opcode.aidx, opcode.table>>
      [] opcode.op = "SelectPlural" ->
            <<9, opcode.aidx, encode_ruleset(opcode.ruleset), opcode.table>>
      [] opcode.op = "Jump" -> <<10, opcode.rel>>
      [] opcode.op = "End" -> <<11>>

\* The number of bytes an encoded opcode takes, by its tag.
OpcodeBytes(encoded) ==
    CASE encoded[1] \in {1, 5, 6, 11} -> 1
      [] encoded[1] \in {0, 2, 3, 4, 10} -> 5
      [] encoded[1] = 7 -> 3
      [] encoded[1] = 8 -> 9
      [] encoded[1] = 9 -> 10

RECURSIVE SumBytes(_)
SumBytes(encoded) ==
    IF encoded = <<>> THEN 0 ELSE OpcodeBytes(Head(encoded)) + SumBytes(Tail(encoded))

\* encode_message: the number pool and the opcodes, with the byte length.
encode_message(p) ==
    LET opcodes == [i \in 1..Len(p.opcodes) |-> encode_opcode(p.opcodes[i])]
    IN [numbers |-> p.number_pool, opcodes |-> opcodes,
        len |-> 4 + 8 * Len(p.number_pool) + 4 + SumBytes(opcodes)]

\* encode_case_tables: the key type byte, its operand and the target.
encode_case_entry(entry) ==
    CASE entry.key.k = "String" -> <<0, entry.key.sidx, entry.target>>
      [] entry.key.k = "Exact" -> <<1, entry.key.n, entry.target>>
      [] entry.key.k = "Category" -> <<2, encode_category(entry.key.c), entry.target>>
      [] entry.key.k = "Other" -> <<3, entry.target>>

encode_case_tables(tables) ==
    [t \in 1..Len(tables) |->
        [e \in 1..Len(tables[t]) |-> encode_case_entry(tables[t][e])]]

\* find_string: the first index holding the value, or 0.
find_string(pool, value) == IF Contains(pool, value) THEN IndexOf(pool, value) ELSE 0

\* encode_message_meta: per message, its id and the pool indices of its
\* argument names.
encode_message_meta(messages, pool) ==
    LET ids == SortedSeq(DOMAIN messages) IN
    [i \in 1..Len(ids) |->
        [id |-> ids[i],
         args |-> [j \in 1..Len(messages[ids[i]].arg_names) |->
                      find_string(pool, messages[ids[i]].arg_names[j])]]]

RECURSIVE BlobEntries(_, _, _)
\* The loop of encode_bytecode_blob: each message at the offset the blob
\* has reached, its length prefix (4 bytes) first.
BlobEntries(messages, ids, offset) ==
    IF ids = <<>> THEN <<>>
    ELSE LET bytes == encode_message(messages[Head(ids)])
         IN <<[id |-> Head(ids), offset |-> offset, message |-> bytes]>>
            \o BlobEntries(messages, Tail(ids), offset + 4 + bytes.len)

\* encode_dense_index: max_id + 1 slots (u32 arithmetic), u32::MAX when absent.
encode_dense_index(offsets) ==
    LET ids == {e.id : e \in offsets}
        max_id == IF ids = {} THEN 0
                  ELSE CHOOSE x \in ids : \A y \in ids : U32LessEq(y, x)
        count == U32Increment(max_id)
    IN [i \in 1..count |->
           IF (i - 1) \in ids THEN (CHOOSE e \in offsets : e.id = i - 1).offset
           ELSE U32_MAX]

encode_sparse_index(offsets) ==
    LET ids == SortedSeq({e.id : e \in offsets})
    IN [i \in 1..Len(ids) |->
           <<ids[i], (CHOOSE e \in offsets : e.id = ids[i]).offset>>]

\* encode_bytecode_blob returns (blob, index).
encode_bytecode_blob(messages, pack_kind) ==
    LET entries == BlobEntries(messages, SortedSeq(DOMAIN messages), 0)
        offsets == {[id |-> entries[i].id, offset |-> entries[i].offset] :
                       i \in 1..Len(entries)}
        index == CASE pack_kind = "Base" -> encode_dense_index(offsets)
                   [] pack_kind = "Overlay" -> encode_sparse_index(offsets)
                   [] pack_kind = "IcuData" -> <<>>
    IN <<entries, index>>

PackKindByte(pack_kind) ==
    CASE pack_kind = "Base" -> 0 [] pack_kind = "Overlay" -> 1 [] pack_kind = "IcuData" -> 2

Section(section_type, body) ==
    [section_type |-> section_type, body |-> Bytes(body), in_bounds |-> TRUE]

\* build_pack_bytes: the 63 header bytes, then the section directory and the
\* section bodies.
build_pack_bytes(pack_kind, id_map_hash, locale_tag_sidx, parent_tag_sidx, sections) ==
    [header_len |-> HEADER_LEN,
     magic |-> PACK_MAGIC,
     kind |-> PackKindByte(pack_kind),
     id_map_hash |-> id_map_hash,
     locale_tag_sidx |-> locale_tag_sidx,
     parent_tag_raw |-> IF IsSome(parent_tag_sidx) THEN Unwrap(parent_tag_sidx)
                        ELSE U32_MAX,
     directory_ok |-> TRUE,
     sections |-> sections]

RECURSIVE RemapAll(_, _, _, _, _)
\* The loop of encode_pack (lines 24-28): (remapped messages, case tables,
\* interner).
RemapAll(messages, ids, interner, case_tables, remapped) ==
    IF ids = <<>> THEN <<remapped, case_tables, interner>>
    ELSE LET r == remap_program(messages[Head(ids)], interner, Len(case_tables))
         IN RemapAll(messages, Tail(ids), r[3], case_tables \o r[2],
                     remapped \cup {<<Head(ids), r[1]>>})

encode_pack(input) ==
    LET tagged == intern(NewInterner, input.locale_tag)
        parented == IF IsSome(input.parent_tag)
                    THEN intern(tagged[1], Unwrap(input.parent_tag))
                    ELSE <<tagged[1], 0>>
        parent_tag_sidx == IF IsSome(input.parent_tag) THEN Some(parented[2]) ELSE None
        done == RemapAll(input.messages, SortedSeq(DOMAIN input.messages),
                         parented[1], <<>>, {})
        remapped_messages == [id \in DOMAIN input.messages |->
                                 (CHOOSE r \in done[1] : r[1] = id)[2]]
        string_pool == done[3]
        blob_index == encode_bytecode_blob(remapped_messages, input.pack_kind)
    IN build_pack_bytes(
           input.pack_kind, input.id_map_hash, tagged[2], parent_tag_sidx,
           <<Section(SECTION_STRING_POOL, string_pool),
             Section(SECTION_MESSAGE_INDEX, blob_index[2]),
             Section(SECTION_BYTECODE_BLOB, blob_index[1]),
             Section(SECTION_CASE_TABLES, encode_case_tables(done[2])),
             Section(SECTION_MESSAGE_META,
                     encode_message_meta(remapped_messages, string_pool))>>)

(***************************************************************************)
(* pack.rs, pack_decode.rs, pack_catalog.rs: decoding.  A section body     *)
(* is its content and whether the bytes hold all of it.                    *)
(***************************************************************************)
Truncated == [complete |-> FALSE, data |-> <<>>]
UnexpectedEof == InvalidInput("unexpected eof")

\* parse_pack_header
parse_pack_header(bytes) ==
    IF bytes.header_len < HEADER_LEN THEN InvalidInput("pack header too short")
    ELSE IF bytes.magic # PACK_MAGIC THEN InvalidInput("pack magic mismatch")
    ELSE IF bytes.kind \notin {0, 1, 2} THEN Unsupported("unknown pack kind")
    ELSE Ok([pack_kind |-> CASE bytes.kind = 0 -> "Base"
                             [] bytes.kind = 1 -> "Overlay"
                             [] bytes.kind = 2 -> "IcuData",
             id_map_hash |-> bytes.id_map_hash,
             locale_tag_sidx |-> bytes.locale_tag_sidx,
             parent_tag_sidx |-> IF bytes.parent_tag_raw = U32_MAX THEN None
                                 ELSE Some(bytes.parent_tag_raw)])

\* parse_section_directory, after the read of the section count.
parse_section_directory(bytes) ==
    IF bytes.directory_ok THEN Ok(bytes.sections)
    ELSE InvalidInput("section directory out of bounds")

\* map_sections: a later entry of a type replaces an earlier one.
map_sections(sections) ==
    IF \E i \in 1..Len(sections) : ~sections[i].in_bounds
    THEN InvalidInput("section out of bounds")
    ELSE Ok([t \in {sections[i].section_type : i \in 1..Len(sections)} |->
                sections[Last({i \in 1..Len(sections) : sections[i].section_type = t})].body])

decode_string_pool(input) == IF ~input.complete THEN UnexpectedEof ELSE Ok(input.data)
decode_dense_index(input) == IF ~input.complete THEN UnexpectedEof ELSE Ok(input.data)
decode_sparse_index(input) == IF ~input.complete THEN UnexpectedEof ELSE Ok(input.data)

DecodeCategory(raw) ==
    CASE raw = 0 -> "Zero" [] raw = 1 -> "One" [] raw = 2 -> "Two"
      [] raw = 3 -> "Few" [] raw = 4 -> "Many" [] OTHER -> "Other"

DecodeCaseEntry(encoded) ==
    CASE encoded[1] = 0 -> CaseEntry(KeyString(encoded[2]), encoded[3])
      [] encoded[1] = 1 -> CaseEntry(KeyExact(encoded[2]), encoded[3])
      [] encoded[1] = 2 -> CaseEntry(KeyCategory(DecodeCategory(encoded[2])), encoded[3])
      [] encoded[1] = 3 -> CaseEntry(KeyOther, encoded[2])

decode_case_tables(input) ==
    LET tables == input.data IN
    IF ~input.complete THEN UnexpectedEof
    ELSE IF \E t \in 1..Len(tables) : \E e \in 1..Len(tables[t]) : tables[t][e][1] \notin 0..3
    THEN InvalidInput("unknown case key type")
    ELSE Ok([t \in 1..Len(tables) |->
                [e \in 1..Len(tables[t]) |-> DecodeCaseEntry(tables[t][e])]])

\* decode_message_meta: a later entry of an id replaces an earlier one.
decode_message_meta(input, string_pool) ==
    LET entries == input.data IN
    IF ~input.complete THEN UnexpectedEof
    ELSE IF \E i \in 1..Len(entries) : \E j \in 1..Len(entries[i].args) :
                ~InRange(string_pool, entries[i].args[j])
    THEN InvalidInput("message meta string index")
    ELSE Ok([id \in {entries[i].id : i \in 1..Len(entries)} |->
                LET entry == entries[Last({i \in 1..Len(entries) : entries[i].id = id})]
                IN [j \in 1..Len(entry.args) |-> At(string_pool, entry.args[j])]])

\* read_bytecode_at: the encoded message whose length prefix starts at the
\* offset.
read_bytecode_at(blob, offset) ==
    LET entries == blob.data
        blob_len == IF entries = <<>> THEN 0
                    ELSE entries[Len(entries)].offset + 4 + entries[Len(entries)].message.len
    IN IF offset < 0 \/ offset + 4 > blob_len
       THEN InvalidInput("bytecode offset out of bounds")
       ELSE IF \E i \in 1..Len(entries) : entries[i].offset = offset
       THEN Ok((CHOOSE e \in {entries[i] : i \in 1..Len(entries)} : e.offset = offset).message)
       ELSE InvalidInput("bytecode length out of bounds")

\* impl TryFrom<u8> for FormatterId
FormatterIdTryFrom(value) ==
    CASE value = 0 -> Ok("Number") [] value = 1 -> Ok("Date") [] value = 2 -> Ok("Time")
      [] value = 3 -> Ok("DateTime") [] value = 4 -> Ok("Unit")
      [] value = 5 -> Ok("Currency") [] value = 6 -> Ok("Identity")
      [] OTHER -> InvalidInput("unknown formatter id")

\* impl TryFrom<u8> for PluralRuleset
PluralRulesetTryFrom(value) ==
    IF value = 0 THEN Ok("Cardinal") ELSE InvalidInput("unknown plural ruleset")

\* The match on the tag byte in decode_message.
DecodeOpcode(encoded) ==
    CASE encoded[1] = 0 -> Ok(EmitText(encoded[2]))
      [] encoded[1] = 1 -> Ok(EmitStack)
      [] encoded[1] = 2 -> Ok(PushStr(encoded[2]))
      [] encoded[1] = 3 -> Ok(PushNum(encoded[2]))
      [] encoded[1] = 4 -> Ok(PushArg(encoded[2]))
      [] encoded[1] = 5 -> Ok(Dup)
      [] encoded[1] = 6 -> Ok(Pop)
      [] encoded[1] = 7 ->
            LET fid == FormatterIdTryFrom(encoded[2])
            IN IF fid.ok THEN Ok(CallFmt(fid.value, encoded[3])) ELSE fid
      [] encoded[1] = 8 -> Ok(Select(encoded[2], encoded[3]))
      [] encoded[1] = 9 ->
            LET ruleset == PluralRulesetTryFrom(encoded[3])
            IN IF ruleset.ok THEN Ok(SelectPlural(encoded[2], ruleset.value, encoded[4]))
               ELSE ruleset
      [] encoded[1] = 10 -> Ok(Jump(encoded[2]))
      [] encoded[1] = 11 -> Ok(End)
      [] OTHER -> InvalidInput("unknown opcode tag")

\* decode_message: every program gets the whole pool and every case table.
decode_message(input, string_pool, case_tables, arg_names) ==
    LET decoded_ops == [i \in 1..Len(input.opcodes) |-> DecodeOpcode(input.opcodes[i])]
        failed == {i \in 1..Len(decoded_ops) : ~decoded_ops[i].ok}
    IN IF failed # {} THEN decoded_ops[First(failed)]
       ELSE Ok([opcodes |-> [i \in 1..Len(decoded_ops) |-> decoded_ops[i].value],
                string_pool |-> string_pool,
                number_pool |-> input.numbers,
                case_tables |-> case_tables,
                arg_names |-> arg_names])

\* The two loops over the index in PackCatalog::decode (lines 62-85):
\* `pairs` are the (id, offset) pairs in index order.
DecodeMessages(pairs, blob, meta, string_pool, case_tables) ==
    LET one(i) ==
            LET slice == read_bytecode_at(blob, pairs[i][2])
                arg_names == IF pairs[i][1] \in DOMAIN meta THEN meta[pairs[i][1]] ELSE <<>>
            IN IF slice.ok
               THEN decode_message(slice.value, string_pool, case_tables, arg_names)
               ELSE slice
        failed == {i \in 1..Len(pairs) : ~one(i).ok}
    IN IF failed # {} THEN one(First(failed))
       ELSE Ok([id \in {pairs[i][1] : i \in 1..Len(pairs)} |->
                   one(Last({i \in 1..Len(pairs) : pairs[i][1] = id})).value])

\* The dense index as (id, offset) pairs, the u32::MAX slots skipped.
DensePairs(offsets) ==
    LET present == SortedSeq({i \in 1..Len(offsets) : offsets[i] # U32_MAX})
    IN [k \in 1..Len(present) |-> <<present[k] - 1, offsets[present[k]]>>]

\* Where PackCatalog::decode compares the header's hash with the expected one.
HashMismatch(header, expected_id_map_hash) == header.id_map_hash # expected_id_map_hash

\* PackCatalog::decode, from the section directory on.
DecodeSections(bytes, header) ==
    LET sections == parse_section_directory(bytes)
        section_map == IF sections.ok THEN map_sections(sections.value) ELSE sections
        has(t) == t \in DOMAIN section_map.value
        string_pool == decode_string_pool(section_map.value[SECTION_STRING_POOL])
        case_tables == decode_case_tables(section_map.value[SECTION_CASE_TABLES])
        meta == decode_message_meta(section_map.value[SECTION_MESSAGE_META], string_pool.value)
        index_bytes == section_map.value[SECTION_MESSAGE_INDEX]
        index == IF header.pack_kind = "Base" THEN decode_dense_index(index_bytes)
                 ELSE decode_sparse_index(index_bytes)
        pairs == IF header.pack_kind = "Base" THEN DensePairs(index.value) ELSE index.value
        messages == DecodeMessages(pairs, section_map.value[SECTION_BYTECODE_BLOB],
                                   meta.value, string_pool.value, case_tables.value)
    IN IF ~section_map.ok THEN section_map
       ELSE IF ~has(SECTION_STRING_POOL) THEN InvalidInput("missing string pool section")
       ELSE IF ~string_pool.ok THEN string_pool
       ELSE IF ~has(SECTION_CASE_TABLES) THEN InvalidInput("missing case tables section")
       ELSE IF ~case_tables.ok THEN case_tables
       ELSE IF ~has(SECTION_MESSAGE_META) THEN InvalidInput("missing message meta section")
       ELSE IF ~meta.ok THEN meta
       ELSE IF ~has(SECTION_MESSAGE_INDEX) THEN InvalidInput("missing message index section")
       ELSE IF header.pack_kind = "IcuData" THEN Unsupported("icu data packs not supported")
       ELSE IF ~index.ok THEN index
       ELSE IF ~has(SECTION_BYTECODE_BLOB) THEN InvalidInput("missing bytecode blob section")
       ELSE IF ~messages.ok THEN messages
       ELSE Ok([header |-> header, messages |-> messages.value])

\* A decode that compares the hashes only once the sections are decoded.
PackCatalogDecodeSectionsFirst(bytes, expected_id_map_hash) ==
    LET header == parse_pack_header(bytes)
        catalog == DecodeSections(bytes, header.value)
    IN IF ~header.ok THEN header
       ELSE IF ~catalog.ok THEN catalog
       ELSE IF HashMismatch(header.value, expected_id_map_hash)
       THEN InvalidInput("id map hash mismatch")
       ELSE catalog

\* PackCatalog::decode
PackCatalogDecode(bytes, expected_id_map_hash) ==
    LET header == parse_pack_header(bytes)
    IN IF ~header.ok THEN header
       ELSE IF HashMismatch(header.value, expected_id_map_hash)
       THEN InvalidInput("id map hash mismatch")
       ELSE DecodeSections(bytes, header.value)

\* impl Catalog for PackCatalog: lookup
PackCatalogLookup(catalog, id) ==
    IF id \in DOMAIN catalog.messages THEN Some(catalog.messages[id]) ELSE None

(***************************************************************************)
(* Encoding and decoding a pack: the inputs and the steps.                 *)
(***************************************************************************)
\* The largest message id of a pack input.
MaxId == 2

HashValues == {"h1", "h2"}

\* The messages a pack input is compiled from: text and a formatted
\* variable, a bare variable, a select, a plural select, a select nested in
\* a case body, and a text that repeats a case key.
PackMessages ==
    {<<Text("T"), Variable("n", Some("number"))>>,
     <<Variable("a", None)>>,
     <<SelectExpr("a", None, <<SelectCase(Ident("x"), FALSE, <<Text("T")>>),
                               SelectCase(Other, FALSE, <<Text("U")>>)>>)>>,
     <<SelectExpr("n", Some("plural"),
                  <<SelectCase(Exact(1), FALSE, <<Text("one")>>),
                    SelectCase(Other, TRUE, <<Variable("n", None)>>)>>)>>,
     <<SelectExpr("a", None,
                  <<SelectCase(Ident("x"), FALSE,
                               <<SelectExpr("b", None,
                                            <<SelectCase(Ident("x"), FALSE, <<Text("I")>>),
                                              SelectCase(Other, FALSE, <<Text("J")>>)>>)>>),
                    SelectCase(Other, FALSE, <<Text("x"), Variable("b", None)>>)>>)>>}

PackPrograms == {compile_message(m) : m \in PackMessages}

\* PackBuildInput
PackBuildInputs ==
    {[pack_kind |-> kind, id_map_hash |-> hash, locale_tag |-> "en",
      parent_tag |-> parent, messages |-> messages] :
        kind \in {"Base", "Overlay"}, hash \in HashValues,
        parent \in {None, Some("x")},
        messages \in UNION {[ids -> PackPrograms] : ids \in SUBSET (0..MaxId)}}

\* The argument bags a decoded program is run with: arguments present with
\* the expected type, with another type, and missing.
PackArgBags ==
    UNION {[names -> {Str("x"), Str("z"), Num(1)}] : names \in {{"a", "b", "n"}, {"a", "n"}}}

PackInit ==
    /\ pstage = "built"
    /\ pack_input \in PackBuildInputs
    /\ pack_bytes = Idle
    /\ hash_given \in HashValues
    /\ decoded = Idle

\* encode_pack
Encode ==
    /\ pstage = "built"
    /\ pack_bytes' = encode_pack(pack_input)
    /\ pstage' = "encoded"
    /\ UNCHANGED <<pack_input, hash_given, decoded>>

\* The bytes handed to PackCatalog::decode need not come from encode_pack:
\* one change to the header, the section directory or a section body.
Corruptions(bytes) ==
    {[bytes EXCEPT !.header_len = HEADER_LEN - 1],
     [bytes EXCEPT !.magic = "MF2PACX"],
     [bytes EXCEPT !.kind = 2],
     [bytes EXCEPT !.kind = 3],
     [bytes EXCEPT !.directory_ok = FALSE],
     [bytes EXCEPT !.sections = <<>>]}
    \cup {[bytes EXCEPT !.sections[i].in_bounds = FALSE] : i \in 1..Len(bytes.sections)}
    \cup {[bytes EXCEPT !.sections[i].body = Truncated] : i \in 1..Len(bytes.sections)}
    \cup {[bytes EXCEPT !.sections[i].section_type = 9] : i \in 1..Len(bytes.sections)}

Corrupt ==
    /\ pstage = "encoded"
    /\ pack_bytes' \in Corruptions(pack_bytes)
    /\ pstage' = "corrupted"
    /\ UNCHANGED <<pack_input, hash_given, decoded>>

\* PackCatalog::decode
Decode ==
    /\ pstage \in {"encoded", "corrupted"}
    /\ decoded' = PackCatalogDecode(pack_bytes, hash_given)
    /\ pstage' = IF pstage = "encoded" THEN "decoded" ELSE "decoded_corrupted"
    /\ UNCHANGED <<pack_input, pack_bytes, hash_given>>

InitPack == MsgIdle /\ PackInit /\ TagIdle /\ NegIdle /\ ChainIdle /\ LoadIdle /\ ToolIdle

NextPack ==
    \/ Encode /\ UNCHANGED <<msg_vars, tag_vars, neg_vars, chain_vars, load_vars, tool_vars>>
    \/ Corrupt /\ UNCHANGED <<msg_vars, tag_vars, neg_vars, chain_vars, load_vars, tool_vars>>
    \/ Decode /\ UNCHANGED <<msg_vars, tag_vars, neg_vars, chain_vars, load_vars, tool_vars>>

SpecPack == InitPack /\ [][NextPack]_vars

\* C2: a pack produced by encode_pack and decoded with the same id-map hash
\* holds, for every message id of the input, a program that returns the same
\* result (the same output or the same error) as the input's program for
\* every argument bag and backend.
C2_DecodedProgramsExecuteAlike ==
    pstage = "decoded" /\ hash_given = pack_input.id_map_hash =>
        /\ decoded.ok
        /\ DOMAIN decoded.value.messages = DOMAIN pack_input.messages
        /\ \A id \in DOMAIN pack_input.messages :
              \A a \in PackArgBags, be \in Backends :
                  execute(decoded.value.messages[id], a, be)
                      = execute(pack_input.messages[id], a, be)

\* A pack of at least two messages, one of them with a select after another
\* select's table, has been encoded and decoded.
C2_Witness ==
    /\ pstage = "decoded"
    /\ hash_given = pack_input.id_map_hash
    /\ decoded.ok
    /\ Cardinality(DOMAIN pack_input.messages) >= 2
    /\ \E id \in DOMAIN decoded.value.messages :
          \E i \in 1..Len(decoded.value.messages[id].opcodes) :
              /\ decoded.value.messages[id].opcodes[i].op \in {"Select", "SelectPlural"}
              /\ decoded.value.messages[id].opcodes[i].table > 0
              /\ pack_input.messages[id].opcodes[i].table = 0

\* C3: whenever the header parses and its id-map hash differs from the
\* expected one, decode returns InvalidInput("id map hash mismatch"),
\* whatever the pack kind, the section directory and the sections hold.
C3_HashMismatchReportedFirst ==
    (pstage \in {"decoded", "decoded_corrupted"}
     /\ parse_pack_header(pack_bytes).ok
     /\ pack_bytes.id_map_hash # hash_given)
        => decoded = InvalidInput("id map hash mismatch")

\* A pack whose header parses, whose hash differs and whose kind, directory
\* or sections are damaged has been decoded.
C3_Witness ==
    /\ pstage = "decoded_corrupted"
    /\ parse_pack_header(pack_bytes).ok
    /\ pack_bytes.id_map_hash # hash_given
    /\ \/ pack_bytes.kind = 2
       \/ ~pack_bytes.directory_ok
       \/ \E i \in 1..Len(pack_bytes.sections) : ~pack_bytes.sections[i].body.complete

(***************************************************************************)
(* language_tag.rs.  A string is the sequence of its characters, so that   *)
(* trimming, splitting, joining and the change of case are computed.       *)
(***************************************************************************)
LowerLetters ==
    <<"a", "b", "c", "d", "e", "f", "g", "h", "i", "j", "k", "l", "m",
      "n", "o", "p", "q", "r", "s", "t", "u", "v", "w", "x", "y", "z">>
UpperLetters ==
    <<"A", "B", "C", "D", "E", "F", "G", "H", "I", "J", "K", "L", "M",
      "N", "O", "P", "Q", "R", "S", "T", "U", "V", "W", "X", "Y", "Z">>
Digits == {"0", "1", "2", "3", "4", "5", "6", "7", "8", "9"}

is_ascii_alphabetic(ch) == Contains(LowerLetters, ch) \/ Contains(UpperLetters, ch)
is_whitespace(ch) == ch = " "

to_ascii_lowercase(value) ==
    [i \in 1..Len(value) |->
        IF Contains(UpperLetters, value[i])
        THEN LowerLetters[IndexOf(UpperLetters, value[i]) + 1] ELSE value[i]]

to_ascii_uppercase(value) ==
    [i \in 1..Len(value) |->
        IF Contains(LowerLetters, value[i])
        THEN UpperLetters[IndexOf(LowerLetters, value[i]) + 1] ELSE value[i]]

\* str::trim
trim(value) ==
    LET kept == {i \in 1..Len(value) : ~is_whitespace(value[i])}
    IN IF kept = {} THEN <<>> ELSE SubSeq(value, First(kept), Last(kept))

RECURSIVE split(_)
\* str::split('-')
split(value) ==
    LET dashes == {i \in 1..Len(value) : value[i] = "-"}
    IN IF dashes = {} THEN <<value>>
       ELSE <<SubSeq(value, 1, First(dashes) - 1)>>
            \o split(SubSeq(value, First(dashes) + 1, Len(value)))

RECURSIVE join(_)
\* [String]::join("-")
join(parts) ==
    IF parts = <<>> THEN <<>>
    ELSE IF Len(parts) = 1 THEN parts[1]
    ELSE parts[1] \o <<"-">> \o join(Tail(parts))

is_alpha(value) == \A i \in 1..Len(value) : is_ascii_alphabetic(value[i])

is_region(value) ==
    \/ Len(value) = 2 /\ is_alpha(value)
    \/ Len(value) = 3 /\ \A i \in 1..Len(value) : value[i] \in Digits

titlecase(value) ==
    IF value = <<>> THEN <<>>
    ELSE to_ascii_uppercase(<<value[1]>>) \o to_ascii_lowercase(Tail(value))

RECURSIVE ParseSubtags(_, _, _)
\* The loop of LanguageTag::parse over the subtags from index idx on; st
\* holds normalized_parts, match_parts, script_seen, region_seen and
\* stop_for_match.
ParseSubtags(subtags, idx, st) ==
    IF idx >= Len(subtags) THEN Ok(st)
    ELSE LET part == trim(At(subtags, idx)) IN
         IF idx = 0
         THEN IF ~is_alpha(part) \/ Len(part) \notin 2..8
              THEN InvalidInput("invalid language subtag")
              ELSE ParseSubtags(subtags, idx + 1,
                       [st EXCEPT !.normalized_parts = Append(@, to_ascii_lowercase(part)),
                                  !.match_parts = Append(@, to_ascii_lowercase(part))])
         ELSE IF Len(part) = 1
         THEN ParseSubtags(subtags, idx + 1,
                  [st EXCEPT !.stop_for_match = TRUE,
                             !.normalized_parts = Append(@, to_ascii_lowercase(part))])
         ELSE LET script == ~st.script_seen /\ Len(part) = 4 /\ is_alpha(part)
                  region == ~script /\ ~st.region_seen /\ is_region(part)
                  normalized == IF script THEN titlecase(part)
                                ELSE IF region THEN to_ascii_uppercase(part)
                                ELSE to_ascii_lowercase(part)
              IN ParseSubtags(subtags, idx + 1,
                     [st EXCEPT !.script_seen = @ \/ script,
                                !.region_seen = @ \/ region,
                                !.normalized_parts = Append(@, normalized),
                                !.match_parts = IF st.stop_for_match THEN @
                                                ELSE Append(@, normalized)])

\* Whether some subtag of the split input is empty (line 21).
HasEmptySubtag(subtags) == \E i \in 1..Len(subtags) : subtags[i] = <<>>

\* LanguageTag::parse
parse(input) ==
    LET trimmed == trim(input)
        subtags == split(trimmed)
        done == ParseSubtags(subtags, 0,
                    [normalized_parts |-> <<>>, match_parts |-> <<>>,
                     script_seen |-> FALSE, region_seen |-> FALSE,
                     stop_for_match |-> FALSE])
    IN IF trimmed = <<>> THEN InvalidInput("language tag is empty")
       ELSE IF HasEmptySubtag(subtags) THEN InvalidInput("language tag has empty subtag")
       ELSE IF ~done.ok THEN done
       ELSE Ok([original |-> trimmed,
                normalized |-> join(done.value.normalized_parts),
                match_subtags |-> done.value.match_parts])

(***************************************************************************)
(* Parsing a tag and parsing its normalized form again.                    *)
(***************************************************************************)
\* The largest number of subtags of an input.
MaxParts == 3

\* What stands between the dashes of an input: well-formed subtags in either
\* case, a singleton, a blank, nothing, a subtag with a digit, one with a
\* blank before it and one too long for a language.
TagParts ==
    {<<"e", "n">>, <<"E", "N">>, <<"l", "a", "t", "n">>, <<"U", "S">>, <<"u", "s">>,
     <<"4", "1", "9">>, <<"x">>, <<"A">>, <<" ">>, <<>>, <<"e", "1">>, <<" ", "g", "b">>,
     <<"a", "b", "c", "d", "e", "f", "g", "h", "i">>}

TagInputs ==
    LET joined == {join(parts) : parts \in UNION {[1..n -> TagParts] : n \in 1..MaxParts}}
    IN joined \cup {<<" ">> \o t \o <<" ">> : t \in joined}

TagInit ==
    /\ tstage = "input"
    /\ raw_tag \in TagInputs
    /\ parsed = Idle
    /\ reparsed = Idle

\* LanguageTag::parse on the input
Parse ==
    /\ tstage = "input"
    /\ parsed' = parse(raw_tag)
    /\ tstage' = "parsed"
    /\ UNCHANGED <<raw_tag, reparsed>>

\* LanguageTag::parse on the normalized form of an accepted input
Reparse ==
    /\ tstage = "parsed"
    /\ parsed.ok
    /\ reparsed' = parse(parsed.value.normalized)
    /\ tstage' = "reparsed"
    /\ UNCHANGED <<raw_tag, parsed>>

InitTag == MsgIdle /\ PackIdle /\ TagInit /\ NegIdle /\ ChainIdle /\ LoadIdle /\ ToolIdle

NextTag ==
    \/ Parse /\ UNCHANGED <<msg_vars, pack_vars, neg_vars, chain_vars, load_vars, tool_vars>>
    \/ Reparse /\ UNCHANGED <<msg_vars, pack_vars, neg_vars, chain_vars, load_vars, tool_vars>>

SpecTag == InitTag /\ [][NextTag]_vars

\* C8: for every input LanguageTag::parse accepts, parsing the normalized
\* form succeeds and yields the same normalized form and the same
\* match_subtags.
C8_NormalizationIdempotent ==
    tstage = "reparsed" =>
        /\ reparsed.ok
        /\ reparsed.value.normalized = parsed.value.normalized
        /\ reparsed.value.match_subtags = parsed.value.match_subtags

\* The same statement for the accepted inputs none of whose subtags is blank.
C8_IdempotentWithoutBlankSubtags ==
    (tstage = "reparsed" /\ \A i \in 1..Len(split(trim(raw_tag))) :
                                trim(split(trim(raw_tag))[i]) # <<>>) =>
        /\ reparsed.ok
        /\ reparsed.value.normalized = parsed.value.normalized
        /\ reparsed.value.match_subtags = parsed.value.match_subtags

(***************************************************************************)
(* negotiation.rs                                                          *)
(***************************************************************************)
\* find_supported: the first supported tag whose normalized form is the
\* candidate.
find_supported(tag, supported) ==
    LET hits == {i \in 1..Len(supported) : supported[i].normalized = tag}
    IN IF hits = {} THEN None ELSE Some(supported[First(hits)])

\* The candidates with the primary language first and the whole tag last.
TriedShortestFirst(requested_tag) ==
    LET match_parts == requested_tag.match_subtags
    IN [k \in 1..Len(match_parts) |-> join(SubSeq(match_parts, 1, k))]
       \o <<requested_tag.normalized>>

\* The candidates of one requested tag (lines 49-62): the normalized form,
\* the joined match subtags when they differ from it, then the match subtags
\* with the last one popped, down to the primary language.
Tried(requested_tag) ==
    LET match_parts == requested_tag.match_subtags
        full_match == join(match_parts)
    IN <<requested_tag.normalized>>
       \o (IF match_parts = <<>> THEN <<>>
           ELSE (IF full_match # requested_tag.normalized THEN <<full_match>> ELSE <<>>)
                \o [k \in 1..(Len(match_parts) - 1) |->
                       join(SubSeq(match_parts, 1, Len(match_parts) - k))])

\* The requested field of a result that is not the default, always the
\* first tag of the request.
FirstRequestedTag(requested, idx) == At(requested, 0)

\* The requested field of a result that is not the default (line 71): the
\* requested tag whose candidate was found.
MatchedRequestedTag(requested, idx) == At(requested, idx)

RECURSIVE NegotiateFrom(_, _, _, _, _)
\* The loop of negotiate_lookup_internal over the requested tags from index
\* idx on; trace is None or the attempts recorded so far.
NegotiateFrom(requested, idx, supported, default_locale, trace) ==
    IF idx >= Len(requested)
    THEN [selected |-> default_locale,
          requested |-> IF requested # <<>> THEN At(requested, 0) ELSE default_locale,
          trace |-> trace]
    ELSE LET tried == Tried(At(requested, idx))
             hits == {i \in 1..Len(tried) : IsSome(find_supported(tried[i], supported))}
             attempted == IF hits = {} THEN tried ELSE SubSeq(tried, 1, First(hits))
             recorded == IF IsSome(trace) THEN Some(Unwrap(trace) \o attempted) ELSE None
         IN IF hits # {}
            THEN [selected |-> Unwrap(find_supported(tried[First(hits)], supported)),
                  requested |-> MatchedRequestedTag(requested, idx),
                  trace |-> recorded]
            ELSE NegotiateFrom(requested, idx + 1, supported, default_locale, recorded)

negotiate_lookup_internal(requested, supported, default_locale, with_trace) ==
    NegotiateFrom(requested, 0, supported, default_locale,
                  IF with_trace THEN Some(<<>>) ELSE None)

negotiate_lookup(requested, supported, default_locale) ==
    negotiate_lookup_internal(requested, supported, default_locale, FALSE)

negotiate_lookup_with_trace(requested, supported, default_locale) ==
    negotiate_lookup_internal(requested, supported, default_locale, TRUE)

(***************************************************************************)
(* Negotiating a locale: the inputs and the steps.                         *)
(***************************************************************************)
\* The longest list of requested tags and of supported tags.
MaxTags == 2

\* en, EN-us, en-Latn-US, en-US-x-a and fr, as written by a caller.
NegotiationInputs ==
    {<<"e", "n">>, <<"E", "N", "-", "u", "s">>,
     <<"e", "n", "-", "L", "a", "t", "n", "-", "U", "S">>,
     <<"e", "n", "-", "U", "S", "-", "x", "-", "a">>,
     <<"f", "r">>}

NegotiationTags == {parse(t).value : t \in NegotiationInputs}

TagLists == UNION {[1..n -> NegotiationTags] : n \in 0..MaxTags}

NegInit ==
    /\ nstage = "asked"
    /\ req_tags \in TagLists
    /\ sup_tags \in TagLists
    /\ def_tag \in NegotiationTags
    /\ negotiation = Idle

Negotiate ==
    /\ nstage = "asked"
    /\ negotiation' = negotiate_lookup(req_tags, sup_tags, def_tag)
    /\ nstage' = "negotiated"
    /\ UNCHANGED <<req_tags, sup_tags, def_tag>>

NegotiateWithTrace ==
    /\ nstage = "asked"
    /\ negotiation' = negotiate_lookup_with_trace(req_tags, sup_tags, def_tag)
    /\ nstage' = "negotiated"
    /\ UNCHANGED <<req_tags, sup_tags, def_tag>>

InitNeg == MsgIdle /\ PackIdle /\ TagIdle /\ NegInit /\ ChainIdle /\ LoadIdle /\ ToolIdle

NextNeg ==
    \/ Negotiate /\ UNCHANGED <<msg_vars, pack_vars, tag_vars, chain_vars, load_vars, tool_vars>>
    \/ NegotiateWithTrace /\ UNCHANGED <<msg_vars, pack_vars, tag_vars, chain_vars, load_vars, tool_vars>>

SpecNeg == InitNeg /\ [][NextNeg]_vars

SupportedTags == {sup_tags[i] : i \in 1..Len(sup_tags)}

\* C6: with a single requested tag r, the selected tag is a supported tag or
\* the default; and when a supported tag has r's normalized form, the
\* selected tag has that normalized form.
C6_SelectedIsSupportedOrDefault ==
    (nstage = "negotiated" /\ Len(req_tags) = 1) =>
        /\ negotiation.selected \in SupportedTags \cup {def_tag}
        /\ (\E t \in SupportedTags : t.normalized = req_tags[1].normalized)
              => negotiation.selected.normalized = req_tags[1].normalized

\* A single tag was requested, the supported list holds its primary language
\* ahead of a tag with its normalized form, and the latter was selected.
C6_Witness ==
    /\ nstage = "negotiated"
    /\ Len(req_tags) = 1
    /\ Len(sup_tags) = 2
    /\ sup_tags[1].normalized = <<"e", "n">>
    /\ sup_tags[2].normalized = req_tags[1].normalized
    /\ sup_tags[2].normalized # sup_tags[1].normalized
    /\ negotiation.selected = sup_tags[2]

\* The requested tags one of whose candidates is supported.
MatchingRequests ==
    {i \in 1..Len(req_tags) :
        \E k \in 1..Len(Tried(req_tags[i])) :
            IsSome(find_supported(Tried(req_tags[i])[k], sup_tags))}

\* C7 as stated: the result carries the first requested tag, whichever
\* requested tag produced the match and also when the default is returned.
C7_RequestedIsFirstTag ==
    (nstage = "negotiated" /\ req_tags # <<>>) => negotiation.requested = req_tags[1]

\* C7, amended: the result carries the requested tag that produced the
\* match; when no requested tag matches it carries the first requested tag,
\* and the default when nothing was requested.
C7_RequestedIsMatchingTag ==
    nstage = "negotiated" =>
        negotiation.requested =
            IF MatchingRequests # {} THEN req_tags[First(MatchingRequests)]
            ELSE IF req_tags # <<>> THEN req_tags[1]
            ELSE def_tag

\* Two different tags were requested and only the second one matched.
C7_Witness ==
    /\ nstage = "negotiated"
    /\ Len(req_tags) = 2
    /\ req_tags[1] # req_tags[2]
    /\ MatchingRequests = {2}
    /\ negotiation.selected \in SupportedTags

(***************************************************************************)
(* catalog.rs.  A catalog is a function from the message ids it holds to   *)
(* their programs.                                                         *)
(***************************************************************************)
\* Catalog::lookup
CatalogLookup(catalog, id) == IF id \in DOMAIN catalog THEN Some(catalog[id]) ELSE None

\* CatalogChain::new
NewCatalogChain(catalogs) == [catalogs |-> catalogs]

\* A lookup that lets the last catalog holding the id decide.
lookup_last_hit(chain, id) ==
    LET hits == {i \in 1..Len(chain.catalogs) : IsSome(CatalogLookup(chain.catalogs[i], id))}
    IN IF hits = {} THEN None ELSE CatalogLookup(chain.catalogs[Last(hits)], id)

RECURSIVE LookupFrom(_, _)
\* The loop of CatalogChain::lookup over the catalogs left.
LookupFrom(catalogs, id) ==
    IF catalogs = <<>> THEN None
    ELSE IF IsSome(CatalogLookup(Head(catalogs), id)) THEN CatalogLookup(Head(catalogs), id)
    ELSE LookupFrom(Tail(catalogs), id)

\* CatalogChain::lookup
lookup(chain, id) == LookupFrom(chain.catalogs, id)

(***************************************************************************)
(* Looking an id up in a chain, and in the chain with an overlay in front. *)
(***************************************************************************)
\* The longest chain of catalogs.
MaxChain == 2

ChainIds == {0, 1}
ChainPrograms == {"p", "q"}
ChainCatalogs == UNION {[ids -> ChainPrograms] : ids \in SUBSET ChainIds}

ChainInit ==
    /\ cstage = "built"
    /\ chain_catalogs \in UNION {[1..n -> ChainCatalogs] : n \in 0..MaxChain}
    /\ overlay_catalog \in ChainCatalogs
    /\ lookup_id \in ChainIds
    /\ found = Idle
    /\ found_with_overlay = Idle

\* CatalogChain::new(catalogs).lookup(id)
Lookup ==
    /\ cstage = "built"
    /\ found' = lookup(NewCatalogChain(chain_catalogs), lookup_id)
    /\ cstage' = "looked_up"
    /\ UNCHANGED <<chain_catalogs, overlay_catalog, lookup_id, found_with_overlay>>

\* The same lookup in the chain with the overlay placed in front.
LookupWithOverlay ==
    /\ cstage = "looked_up"
    /\ found_with_overlay' =
           lookup(NewCatalogChain(<<overlay_catalog>> \o chain_catalogs), lookup_id)
    /\ cstage' = "overlaid"
    /\ UNCHANGED <<chain_catalogs, overlay_catalog, lookup_id, found>>

InitChain == MsgIdle /\ PackIdle /\ TagIdle /\ NegIdle /\ ChainInit /\ LoadIdle /\ ToolIdle

NextChain ==
    \/ Lookup /\ UNCHANGED <<msg_vars, pack_vars, tag_vars, neg_vars, load_vars, tool_vars>>
    \/ LookupWithOverlay /\ UNCHANGED <<msg_vars, pack_vars, tag_vars, neg_vars, load_vars, tool_vars>>

SpecChain == InitChain /\ [][NextChain]_vars

\* The catalogs of the chain that hold the id looked up.
Holders == {i \in 1..Len(chain_catalogs) : lookup_id \in DOMAIN chain_catalogs[i]}

\* C9: lookup returns the program of the first catalog of the chain that
\* holds the id, and None only when no catalog holds it; with an overlay in
\* front, the overlay's program when the overlay holds the id, and otherwise
\* what the chain without the overlay returns.
C9_FirstHolderWins ==
    /\ cstage \in {"looked_up", "overlaid"} =>
          found = IF Holders = {} THEN None
                  ELSE Some(chain_catalogs[First(Holders)][lookup_id])
    /\ cstage = "overlaid" =>
          /\ IsSome(found) => IsSome(found_with_overlay)
          /\ found_with_overlay =
                IF lookup_id \in DOMAIN overlay_catalog
                THEN Some(overlay_catalog[lookup_id]) ELSE found

\* Two catalogs of the chain hold the id with different programs, and an
\* overlay that does not hold it was placed in front.
C9_Witness ==
    /\ cstage = "overlaid"
    /\ Cardinality(Holders) = 2
    /\ chain_catalogs[1][lookup_id] # chain_catalogs[2][lookup_id]
    /\ lookup_id \notin DOMAIN overlay_catalog
    /\ overlay_catalog # << >>
    /\ IsSome(found_with_overlay)

(***************************************************************************)
(* The runtime crate: manifest.rs, loader.rs, id_map.rs, signing.rs and    *)
(* runtime.rs.  A release on disk is the manifest, the id map and the pack *)
(* files by url.  SHA-256 numbers the contents the model reads, so that    *)
(* two digests are equal exactly when the contents are; a hash string of   *)
(* the manifest is a digest and whether it is well-formed hex.             *)
(***************************************************************************)
\* en and en-x-a, and en-us as a locale directory may spell it
En == <<"e", "n">>
EnXA == <<"e", "n", "-", "x", "-", "a">>
EnUs == <<"e", "n", "-", "u", "s">>

\* The id maps a release may ship.
IdMaps == <<("hello" :> 0), ("hello" :> 0 @@ "bye" :> 1)>>

\* The pack a build writes for a locale: one message, Hello in the base
\* pack and Hi in an overlay.
BuiltPack(locale, kind, id_map) ==
    encode_pack([pack_kind |-> IF kind = "overlay" THEN "Overlay" ELSE "Base",
                 id_map_hash |-> [sha256 |-> "id map", of |-> IndexOf(IdMaps, id_map)],
                 locale_tag |-> IF locale = En THEN "en"
                                ELSE IF locale = EnUs THEN "en-us" ELSE "en-x-a",
                 parent_tag |-> None,
                 messages |-> (0 :> compile_message(
                                  <<Text(IF kind = "overlay" THEN "Hi" ELSE "Hello")>>))])

\* Every pack file the model reads, in a fixed order.
PackFiles ==
    LET RECURSIVE AsSeq(_)
        AsSeq(S) == IF S = {} THEN <<>>
                    ELSE LET x == CHOOSE x \in S : TRUE IN <<x>> \o AsSeq(S \ {x})
    IN AsSeq({BuiltPack(locale, kind, IdMaps[i]) :
                 locale \in {En, EnXA, EnUs}, kind \in {"base", "overlay"},
                 i \in 1..Len(IdMaps)})

\* sha256 of a file's bytes
sha256(bytes) == [sha256 |-> "file", of |-> IndexOf(PackFiles, bytes)]

RuntimeErr(kind, detail) == [ok |-> FALSE, kind |-> kind, detail |-> detail]

\* impl From<CoreError> for RuntimeError
FromCoreError(err) == RuntimeErr("Core", err.text)

RECURSIVE Sum(_)
Sum(numbers) == IF numbers = <<>> THEN 0 ELSE Head(numbers) + Sum(Tail(numbers))

\* The number of bytes of a section body, as the encoders of pack_encode.rs
\* write it.
SectionLen(kind, section) ==
    LET data == section.body.data
        EntryLen(entry) == IF entry[1] \in {0, 1} THEN 9 ELSE IF entry[1] = 2 THEN 6 ELSE 5
        TableLen(table) == 4 + Sum([e \in 1..Len(table) |-> EntryLen(table[e])])
    IN CASE section.section_type = SECTION_STRING_POOL ->
               4 + Sum([i \in 1..Len(data) |-> 4 + Len(data[i])])
         [] section.section_type = SECTION_MESSAGE_INDEX ->
               (CASE kind = PackKindByte("Base") -> 4 + 4 * Len(data)
                  [] kind = PackKindByte("Overlay") -> 4 + 8 * Len(data)
                  [] kind = PackKindByte("IcuData") -> 0)
         [] section.section_type = SECTION_BYTECODE_BLOB ->
               Sum([i \in 1..Len(data) |-> 4 + data[i].message.len])
         [] section.section_type = SECTION_CASE_TABLES ->
               4 + Sum([i \in 1..Len(data) |-> TableLen(data[i])])
         [] section.section_type = SECTION_MESSAGE_META ->
               4 + Sum([i \in 1..Len(data) |-> 8 + 4 * Len(data[i].args)])

\* bytes.len() of a pack file: the header, the section count, nine bytes of
\* directory per section and the section bodies.
PackLen(bytes) ==
    HEADER_LEN + 2 + 9 * Len(bytes.sections)
    + Sum([i \in 1..Len(bytes.sections) |-> SectionLen(bytes.kind, bytes.sections[i])])

\* parse_sha256
parse_sha256(value) ==
    IF value.hex THEN Ok(value.digest) ELSE RuntimeErr("InvalidHash", "")

\* IdMap::hash
IdMapHash(id_map) == [sha256 |-> "id map", of |-> IndexOf(IdMaps, id_map)]

\* IdMap::get
IdMapGet(id_map, key) == IF key \in DOMAIN id_map THEN Some(id_map[key]) ELSE None

\* Manifest::to_signing_bytes
to_signing_bytes(manifest) == [manifest EXCEPT !.signing = None]

\* parse_signature
parse_signature(value) ==
    IF value.well_formed THEN Ok(value)
    ELSE RuntimeErr("InvalidManifest", "invalid signature")

\* VerifyingKey::verify_strict: the signature was made with the key's secret
\* half over these bytes.
verify_strict(verifying_key, bytes, signature) ==
    signature.signer = verifying_key /\ signature.signed = bytes

\* verify_manifest_signature
verify_manifest_signature(manifest, key_id, verifying_key) ==
    IF ~IsSome(manifest.signing) THEN Ok("unit")
    ELSE LET signing == Unwrap(manifest.signing)
             signature == parse_signature(signing.manifest_sig)
         IN IF signing.key_id # key_id
            THEN RuntimeErr("InvalidManifest", "key id mismatch")
            ELSE IF signing.sig_alg # "ed25519"
            THEN RuntimeErr("InvalidManifest", "unsupported signature")
            ELSE IF ~signature.ok THEN signature
            ELSE IF verify_strict(verifying_key, to_signing_bytes(manifest), signature.value)
            THEN Ok("unit")
            ELSE RuntimeErr("SignatureFailed", "")

\* The `?` on a CoreResult inside a function returning a RuntimeResult.
FromCoreResult(result) == IF result.ok THEN result ELSE FromCoreError(result)

\* A load_pack that does not compare the SHA-256 of the bytes with the entry.
load_pack_unhashed(files, locale, entry, id_map_hash) ==
    IF entry.url \notin DOMAIN files THEN RuntimeErr("Io", entry.url)
    ELSE IF PackLen(files[entry.url]) # entry.size THEN RuntimeErr("HashMismatch", locale)
    ELSE IF ~entry.hash.hex THEN parse_sha256(entry.hash)
    ELSE FromCoreResult(PackCatalogDecode(files[entry.url], id_map_hash))

\* load_pack
load_pack(files, locale, entry, id_map_hash) ==
    IF entry.url \notin DOMAIN files THEN RuntimeErr("Io", entry.url)
    ELSE IF PackLen(files[entry.url]) # entry.size THEN RuntimeErr("HashMismatch", locale)
    ELSE IF ~entry.hash.hex THEN parse_sha256(entry.hash)
    ELSE IF parse_sha256(entry.hash).value # sha256(files[entry.url])
    THEN RuntimeErr("HashMismatch", locale)
    ELSE FromCoreResult(PackCatalogDecode(files[entry.url], id_map_hash))

\* The keys of a BTreeMap<String, _> in the order it iterates them; the
\* locales of the model (en, en-us, en-x-a) sort as their lengths do.
KeysInOrder(map) ==
    LET RECURSIVE Order(_)
        Order(keys) ==
            IF keys = {} THEN <<>>
            ELSE LET least == CHOOSE k \in keys : \A other \in keys : Len(k) <= Len(other)
                 IN <<least>> \o Order(keys \ {least})
    IN Order(DOMAIN map)

\* The parent map of load_from_paths (lines 103-116): the micro_locales
\* entries, then the parent of every overlay entry on top of them.
BuildParents(manifest) ==
    LET micro == IF IsSome(manifest.micro_locales) THEN Unwrap(manifest.micro_locales)
                 ELSE << >>
        overlays == {locale \in DOMAIN manifest.mf2_packs :
                        /\ manifest.mf2_packs[locale].kind = "overlay"
                        /\ IsSome(manifest.mf2_packs[locale].parent)}
    IN [locale \in DOMAIN micro \cup overlays |->
           IF locale \in overlays THEN Unwrap(manifest.mf2_packs[locale].parent)
           ELSE micro[locale]]

\* Runtime::load_from_paths from line 87 on, given what parse_sha256, the
\* calls of load_pack in the order of the loop and the calls of
\* LanguageTag::parse return.
LoadWith(disk, expected_hash, locales, loaded_packs, default_locale, supported) ==
    LET manifest == disk.manifest
        failed == {i \in 1..Len(locales) : ~loaded_packs[i].ok}
        unparsed == {i \in 1..Len(supported) : ~supported[i].ok}
    IN IF ~expected_hash.ok THEN expected_hash
       ELSE IF expected_hash.value # IdMapHash(disk.id_map) THEN RuntimeErr("InvalidIdMap", "")
       ELSE IF failed # {} THEN loaded_packs[First(failed)]
       ELSE IF ~default_locale.ok THEN FromCoreError(default_locale)
       ELSE IF unparsed # {} THEN FromCoreError(supported[First(unparsed)])
       ELSE Ok([manifest |-> manifest,
                id_map |-> disk.id_map,
                packs |-> [locale \in DOMAIN manifest.mf2_packs |->
                              loaded_packs[IndexOf(locales, locale) + 1].value],
                parents |-> BuildParents(manifest),
                default_locale |-> default_locale.value,
                supported |-> [i \in 1..Len(supported) |-> supported[i].value]])

\* The calls of load_pack of the loop of lines 98-101.
LoadPacks(disk, locales) ==
    [i \in 1..Len(locales) |->
        load_pack(disk.files, locales[i], disk.manifest.mf2_packs[locales[i]],
                  parse_sha256(disk.manifest.id_map_hash).value)]

\* Runtime::load_from_paths
load_from_paths(disk) ==
    LoadWith(disk,
             parse_sha256(disk.manifest.id_map_hash),
             KeysInOrder(disk.manifest.mf2_packs),
             LoadPacks(disk, KeysInOrder(disk.manifest.mf2_packs)),
             parse(disk.manifest.default_locale),
             [i \in 1..Len(disk.manifest.supported_locales) |->
                 parse(disk.manifest.supported_locales[i])])

(***************************************************************************)
(* Loading a release and formatting a message from it: the inputs and the  *)
(* steps.  format_with_backend is taken one iteration of the loop of       *)
(* catalog_chain_for at a time; `walk.visited` keeps the tags the loop has *)
(* bound to `tag` so far.                                                  *)
(***************************************************************************)
\* The largest number of iterations of the loop of catalog_chain_for that
\* are followed.
MaxWalk == 4

Fr == <<"f", "r">>

PackUrl(locale) ==
    IF locale = En THEN "packs/en.mf2pack"
    ELSE IF locale = EnUs THEN "packs/en-us.mf2pack" ELSE "packs/en-x-a.mf2pack"

EntryFaults == {"none", "size", "hash", "hex", "embedded", "missing"}

\* The file of a locale's pack: built against the id map the manifest names,
\* or against another one.
ReleaseFile(locale, kind, fault) ==
    BuiltPack(locale, kind, IF fault = "embedded" THEN IdMaps[2] ELSE IdMaps[1])

\* The manifest entry of a pack file of this length and digest: its size and
\* hash are those of the file, or one of them is off.
ReleaseEntry(locale, kind, parent, fault, length, digest) ==
    [kind |-> kind,
     url |-> PackUrl(locale),
     hash |-> [hex |-> fault # "hex",
               digest |-> IF fault = "hash"
                          THEN [digest EXCEPT !.of = (@ + 1) % Len(PackFiles)]
                          ELSE digest],
     size |-> IF fault = "size" THEN length + 1 ELSE length,
     parent |-> parent]

\* The shapes of the entry of en and of en-x-a: its kind and its parent.
EnShapes == {<<"base", None>>, <<"overlay", Some(En)>>}
EnXAShapes == {<<"overlay", Some(En)>>, <<"overlay", None>>, <<"base", Some(En)>>,
               <<"overlay", Some(Fr)>>}

\* The micro_locales of a manifest.
MicroLocales == {None, Some(EnXA :> En), Some(En :> EnXA), Some(En :> En)}

\* The id_map_hash of a manifest: that of the id map on disk, that of another
\* id map, or no hex string.
IdMapHashes ==
    <<[hex |-> TRUE, digest |-> [sha256 |-> "id map", of |-> 0]],
      [hex |-> TRUE, digest |-> [sha256 |-> "id map", of |-> 1]],
      [hex |-> FALSE, digest |-> [sha256 |-> "id map", of |-> 0]]>>

\* The locale lists of a manifest: well-formed, with a default or a
\* supported locale that does not parse, or with a locale in lower case.
LocaleLists ==
    <<[default_locale |-> En, supported_locales |-> <<En, EnXA>>],
      [default_locale |-> <<>>, supported_locales |-> <<En, EnXA>>],
      [default_locale |-> En, supported_locales |-> <<En, <<"e", "1">> >>],
      [default_locale |-> En, supported_locales |-> <<En, EnUs>>]>>

\* What the signing block of a manifest may be: absent, a signature by key1
\* over the signing bytes of the manifest, one over the bytes of another
\* release, or one that is not 64 bytes.
SigningKinds == {"unsigned", "signed", "forged", "malformed"}

Signing(manifest, signing_kind) ==
    IF signing_kind = "unsigned" THEN None
    ELSE Some([sig_alg |-> "ed25519",
               key_id |-> "k1",
               manifest_sig |->
                   [well_formed |-> signing_kind # "malformed",
                    signer |-> "key1",
                    signed |-> IF signing_kind = "forged"
                               THEN [manifest EXCEPT !.release_id = "r0"]
                               ELSE manifest]])

\* The manifest with its signing block.
Signed(manifest, signing_kind) == [manifest EXCEPT !.signing = Signing(manifest, signing_kind)]

\* A release on disk: the manifest, the id map and the pack files by url.
ReleaseOf(built, lists, id_map_hash, en_shape, xa_shape, en_fault, xa_fault, micro,
          signing_kind) ==
    LET shape(locale) == IF locale = En THEN en_shape ELSE xa_shape
        fault(locale) == IF locale = En THEN en_fault ELSE xa_fault
        shipped == {locale \in DOMAIN built : fault(locale) # "missing"}
    IN [manifest |->
            Signed([release_id |-> "r1",
                    default_locale |-> lists.default_locale,
                    supported_locales |-> lists.supported_locales,
                    id_map_hash |-> id_map_hash,
                    mf2_packs |-> [locale \in DOMAIN built |->
                                      ReleaseEntry(locale, shape(locale)[1], shape(locale)[2],
                                                   fault(locale), PackLen(built[locale]),
                                                   sha256(built[locale]))],
                    micro_locales |-> micro,
                    signing |-> None],
                   signing_kind),
        id_map |-> IdMaps[1],
        files |-> [url \in {PackUrl(locale) : locale \in shipped} |->
                      built[CHOOSE locale \in shipped : PackUrl(locale) = url]]]

Release(lists, id_map_hash, present, en_shape, xa_shape, en_fault, xa_fault, micro,
        signing_kind) ==
    ReleaseOf([locale \in present |->
                  ReleaseFile(locale,
                              IF locale = En THEN en_shape[1] ELSE xa_shape[1],
                              IF locale = En THEN en_fault ELSE xa_fault)],
              lists, id_map_hash, en_shape, xa_shape, en_fault, xa_fault, micro,
              signing_kind)

\* The releases read: every shape of the parent relation under every signing
\* block with nothing else wrong, every combination of integrity faults of a
\* release of two packs, the locale lists that do not parse, and releases
\* with a pack for the locale en-us.
ReleaseChoices ==
    {<<LocaleLists[1], IdMapHashes[1], present, en_shape, xa_shape, "none", "none",
       micro, signing_kind>> :
        present \in {{En}, {EnXA}, {En, EnXA}},
        en_shape \in EnShapes, xa_shape \in EnXAShapes,
        micro \in MicroLocales, signing_kind \in SigningKinds}
    \cup
    {<<LocaleLists[1], IdMapHashes[i], {En, EnXA}, <<"base", None>>,
       <<"overlay", Some(En)>>, en_fault, xa_fault, None, signing_kind>> :
        i \in 1..Len(IdMapHashes), en_fault \in EntryFaults, xa_fault \in EntryFaults,
        signing_kind \in {"unsigned", "forged"}}
    \cup
    {<<LocaleLists[i], IdMapHashes[1], {En, EnXA}, <<"base", None>>,
       <<"overlay", Some(En)>>, "none", "none", None, "unsigned">> :
        i \in 1..Len(LocaleLists)}
    \cup
    {<<LocaleLists[4], IdMapHashes[1], present, <<"base", None>>, <<"base", None>>,
       "none", "none", None, "unsigned">> :
        present \in {{EnUs}, {En, EnUs}}}

Releases ==
    {Release(c[1], c[2], c[3], c[4], c[5], c[6], c[7], c[8], c[9]) : c \in ReleaseChoices}

\* The key ids and the keys a caller may verify a manifest with.
KeyIds == {"k1", "k2"}
VerifyingKeys == {"key1", "key2"}

\* The locales and the keys a caller may format with.
FormatLocales == {En, EnXA, EnUs, <<"E", "N", "-", "u", "s">>, Fr, <<>>}
FormatKeys == {"hello", "bye", "other"}

LoadInit ==
    /\ lstage = "on_disk"
    /\ release \in Releases
    /\ verified = Idle
    /\ loaded = Idle
    /\ walk = Idle
    /\ formatted = Idle

\* A caller verifies the manifest of the release; `verified` keeps the key
\* id and the key of the call beside what it returned.
Verify ==
    /\ lstage = "on_disk"
    /\ \E key_id \in KeyIds, verifying_key \in VerifyingKeys :
          verified' = [key_id |-> key_id, verifying_key |-> verifying_key,
                       result |-> verify_manifest_signature(release.manifest, key_id,
                                                            verifying_key)]
    /\ lstage' = "checked"
    /\ UNCHANGED <<release, loaded, walk, formatted>>

\* Runtime::load_from_paths
Load ==
    /\ lstage \in {"on_disk", "checked"}
    /\ loaded' = load_from_paths(release)
    /\ lstage' = "loaded"
    /\ UNCHANGED <<release, verified, walk, formatted>>

\* Runtime::format_with_backend up to the loop of catalog_chain_for.
StartFormat ==
    /\ lstage = "loaded"
    /\ loaded.ok
    /\ \E locale \in FormatLocales, key \in FormatKeys :
          LET locale_tag == parse(locale)
              negotiated == negotiate_lookup(<<locale_tag.value>>, loaded.value.supported,
                                              loaded.value.default_locale)
              selected == negotiated.selected.normalized
          IN IF ~locale_tag.ok
             THEN /\ formatted' = FromCoreError(locale_tag)
                  /\ lstage' = "formatted"
                  /\ walk' = walk
             ELSE /\ walk' = [requested |-> locale, locale |-> selected, key |-> key,
                              current |-> Some(selected), catalogs |-> <<>>,
                              visited |-> <<>>]
                  /\ lstage' = "walking"
                  /\ formatted' = formatted
    /\ UNCHANGED <<release, verified, loaded>>

\* One iteration of the loop of catalog_chain_for; `catalogs` holds the
\* locales of the packs pushed.
WalkStep ==
    /\ lstage = "walking"
    /\ IsSome(walk.current)
    /\ Len(walk.visited) < MaxWalk
    /\ LET tag == Unwrap(walk.current)
           runtime == loaded.value
       IN walk' = [walk EXCEPT
                      !.catalogs = IF tag \in DOMAIN runtime.packs THEN Append(@, tag) ELSE @,
                      !.current = IF tag \in DOMAIN runtime.parents
                                  THEN Some(runtime.parents[tag]) ELSE None,
                      !.visited = Append(@, tag)]
    /\ UNCHANGED <<lstage, release, verified, loaded, formatted>>

\* Runtime::format_with_backend once catalog_chain_for has left its loop;
\* the chain looks an id up in the messages of each PackCatalog.
FormatWithChain(runtime, locale, catalogs, key) ==
    LET catalog_chain == NewCatalogChain([i \in 1..Len(catalogs) |->
                                             runtime.packs[catalogs[i]].messages])
        message_id == IdMapGet(runtime.id_map, key)
        found_program == lookup(catalog_chain, Unwrap(message_id))
        output == execute(Unwrap(found_program), << >>, "basic")
    IN IF catalogs = <<>> THEN RuntimeErr("MissingLocale", locale)
       ELSE IF ~IsSome(message_id) THEN RuntimeErr("MissingMessage", key)
       ELSE IF ~IsSome(found_program) THEN RuntimeErr("MissingMessage", key)
       ELSE IF ~output.ok THEN FromCoreError(output)
       ELSE output

FinishFormat ==
    /\ lstage = "walking"
    /\ ~IsSome(walk.current)
    /\ formatted' = FormatWithChain(loaded.value, walk.locale, walk.catalogs, walk.key)
    /\ lstage' = "formatted"
    /\ UNCHANGED <<release, verified, loaded, walk>>

InitLoad ==
    /\ LoadInit
    /\ MsgIdle /\ PackIdle /\ TagIdle /\ NegIdle /\ ChainIdle /\ ToolIdle

NextLoad ==
    \/ Verify /\ UNCHANGED <<msg_vars, pack_vars, tag_vars, neg_vars, chain_vars, tool_vars>>
    \/ Load /\ UNCHANGED <<msg_vars, pack_vars, tag_vars, neg_vars, chain_vars, tool_vars>>
    \/ StartFormat /\ UNCHANGED <<msg_vars, pack_vars, tag_vars, neg_vars, chain_vars, tool_vars>>
    \/ WalkStep /\ UNCHANGED <<msg_vars, pack_vars, tag_vars, neg_vars, chain_vars, tool_vars>>
    \/ FinishFormat /\ UNCHANGED <<msg_vars, pack_vars, tag_vars, neg_vars, chain_vars, tool_vars>>

SpecLoad == InitLoad /\ [][NextLoad]_vars

(***************************************************************************)
(* What a load owes to the release it read.                                *)
(***************************************************************************)
Loaded == lstage \in {"loaded", "walking", "formatted"}

\* The manifest's id_map_hash is hex and is the hash of the id map on disk.
IdMapCheckPasses ==
    /\ release.manifest.id_map_hash.hex
    /\ release.manifest.id_map_hash.digest = IdMapHash(release.id_map)

\* The file of the entry is there and has the entry's size.
SizeCheckPasses(locale) ==
    /\ release.manifest.mf2_packs[locale].url \in DOMAIN release.files
    /\ PackLen(release.files[release.manifest.mf2_packs[locale].url])
           = release.manifest.mf2_packs[locale].size

\* The entry's hash is hex and is the SHA-256 of the file.
HashCheckPasses(locale) ==
    /\ release.manifest.mf2_packs[locale].hash.hex
    /\ release.manifest.mf2_packs[locale].hash.digest
           = sha256(release.files[release.manifest.mf2_packs[locale].url])

\* The id_map_hash in the header of the file is the manifest's.
EmbeddedCheckPasses(locale) ==
    release.files[release.manifest.mf2_packs[locale].url].id_map_hash
        = release.manifest.id_map_hash.digest

PackChecksPass(locale) ==
    SizeCheckPasses(locale) /\ HashCheckPasses(locale) /\ EmbeddedCheckPasses(locale)

\* The locales of mf2_packs the loop of load_from_paths reaches before this
\* one.
LoadedBefore(locale) ==
    {other \in DOMAIN release.manifest.mf2_packs : Len(other) < Len(locale)}

\* C4: load_from_paths returns a Runtime only if the id map hashes to the
\* manifest's id_map_hash and every entry of mf2_packs has a file of the
\* entry's size, of the entry's SHA-256 and with the manifest's id_map_hash in
\* its header; an id map of another hash makes the load fail with
\* InvalidIdMap, and the first pack whose size or SHA-256 is off makes it fail
\* with HashMismatch for that locale.
C4_LoadOnlyWithIntegrity ==
    Loaded =>
        /\ loaded.ok =>
              /\ IdMapCheckPasses
              /\ \A locale \in DOMAIN release.manifest.mf2_packs : PackChecksPass(locale)
        /\ (release.manifest.id_map_hash.hex /\ ~IdMapCheckPasses)
              => loaded = RuntimeErr("InvalidIdMap", "")
        /\ \A locale \in DOMAIN release.manifest.mf2_packs :
              (/\ IdMapCheckPasses
               /\ \A other \in LoadedBefore(locale) : PackChecksPass(other)
               /\ release.manifest.mf2_packs[locale].url \in DOMAIN release.files
               /\ release.manifest.mf2_packs[locale].hash.hex
               /\ ~(SizeCheckPasses(locale) /\ HashCheckPasses(locale)))
              => loaded = RuntimeErr("HashMismatch", locale)

\* A release of two packs was loaded.
C4_Witness ==
    /\ lstage = "loaded"
    /\ loaded.ok
    /\ DOMAIN loaded.value.packs = {En, EnXA}
    /\ \A locale \in {En, EnXA} : PackChecksPass(locale)

\* Some key verifies the signature of the manifest.
SignatureVerifies ==
    \E verifying_key \in VerifyingKeys :
        verify_manifest_signature(release.manifest,
                                  Unwrap(release.manifest.signing).key_id,
                                  verifying_key).ok

\* C5: load_from_paths fails for a manifest whose signing block carries a
\* signature that does not verify over the signing bytes of the manifest.
C5_LoadVerifiesSignature ==
    (Loaded /\ IsSome(release.manifest.signing) /\ ~SignatureVerifies) => ~loaded.ok

\* C10: the loop of catalog_chain_for comes to no locale it has been at
\* before, so that the walk from the negotiated locale ends.
C10_WalkVisitsNoLocaleTwice ==
    lstage = "walking" =>
        /\ \A i, j \in 1..Len(walk.visited) : walk.visited[i] = walk.visited[j] => i = j
        /\ IsSome(walk.current) =>
              \A i \in 1..Len(walk.visited) : walk.visited[i] # Unwrap(walk.current)

\* A format call whose locale parsed has returned: every other failure of
\* these calls is a Core error of LanguageTag::parse.
FormattedParsedLocale ==
    /\ lstage = "formatted"
    /\ (formatted.ok \/ formatted.kind # "Core")

\* C11: a format call with a parsable locale and a key that the id map does
\* not hold returns MissingMessage for that key, and so MissingLocale is
\* returned only for keys that the id map holds.
C11_AbsentKeyIsMissingMessage ==
    (FormattedParsedLocale /\ walk.key \notin DOMAIN loaded.value.id_map)
        => formatted = RuntimeErr("MissingMessage", walk.key)

(***************************************************************************)
(* Running a decoded program one iteration of the loop of `execute` at a   *)
(* time.  The programs are any short opcode sequences, with any jump       *)
(* offsets and case-table targets, packed by encode_pack and read back by  *)
(* PackCatalog::decode; `run_machine.seen` keeps the machine states the    *)
(* loop has been in.                                                       *)
(***************************************************************************)
\* The longest opcode sequence of a program, the largest jump offset and
\* case-table target, and the largest number of loop iterations followed.
MaxRunLen == 3
MaxTarget == 2
MaxRunSteps == 6

RunOpcodes ==
    {EmitText(0), Select(0, 0), End} \cup {Jump(rel) : rel \in (0 - 1)..MaxTarget}

RunCaseTables ==
    {<<>>} \cup {<< <<CaseEntry(KeyOther, target)>> >> : target \in 0..MaxTarget}

\* The programs handed to encode_pack.
RunPrograms ==
    {[opcodes |-> opcodes, string_pool |-> <<"t">>, number_pool |-> <<>>,
      case_tables |-> case_tables, arg_names |-> <<"a">>] :
        opcodes \in UNION {[1..n -> RunOpcodes] : n \in 1..MaxRunLen},
        case_tables \in RunCaseTables}

\* What PackCatalog::decode returns for the pack of one message.
DecodedFromPack(p) ==
    PackCatalogDecode(
        encode_pack([pack_kind |-> "Base", id_map_hash |-> "h1", locale_tag |-> "en",
                     parent_tag |-> None, messages |-> (0 :> p)]),
        "h1")

RunInit ==
    /\ rstage = "running"
    /\ \E p \in RunPrograms :
          /\ DecodedFromPack(p).ok
          /\ run_program = Unwrap(PackCatalogLookup(DecodedFromPack(p).value, 0))
    /\ run_args = ("a" :> Str("x"))
    /\ run_machine = [m |-> Machine(0, <<>>, ""), seen |-> <<>>]
    /\ run_result = Idle

\* One iteration of the loop of `execute`, or its return.
RunStep ==
    /\ rstage = "running"
    /\ Len(run_machine.seen) < MaxRunSteps
    /\ LET step == ExecStep(run_program, run_args, "basic", run_machine.m)
       IN IF step.done
          THEN /\ run_result' = step.result
               /\ rstage' = "returned"
               /\ run_machine' = run_machine
          ELSE /\ run_machine' = [m |-> step.m, seen |-> Append(run_machine.seen, run_machine.m)]
               /\ rstage' = rstage
               /\ run_result' = run_result
    /\ UNCHANGED <<run_program, run_args>>

InitRun == CoreIdle /\ RunInit /\ LexIdle /\ ExtractIdle /\ ScanIdle /\ IdMapIdle

NextRun ==
    \/ RunStep /\ UNCHANGED <<core_vars, lex_vars, extract_vars, scan_vars, idmap_vars>>

SpecRun == InitRun /\ [][NextRun]_vars

\* C12: execute returns after finitely many iterations of its loop: the
\* loop, which is deterministic, is never in a machine state (program
\* counter, stack and output) it has been in before.
C12_ExecuteNeverRepeatsAState ==
    rstage = "running" =>
        \A i \in 1..Len(run_machine.seen) : run_machine.seen[i] # run_machine.m

(***************************************************************************)
(* The shape of a compiled program (bytecode.rs, compiler.rs).             *)
(***************************************************************************)
ValidOpcodeIndex(p, i) == i >= 0 /\ i < Len(p.opcodes)

EndIsLastAndOnly(p) ==
    /\ p.opcodes # <<>>
    /\ \A i \in 1..Len(p.opcodes) : (p.opcodes[i].op = "End") <=> (i = Len(p.opcodes))

JumpsLandForward(p) ==
    \A i \in 1..Len(p.opcodes) :
        p.opcodes[i].op = "Jump" =>
            /\ p.opcodes[i].rel >= 1
            /\ ValidOpcodeIndex(p, (i - 1) + p.opcodes[i].rel)

TargetsValid(p) ==
    \A t \in 1..Len(p.case_tables) :
        \A e \in 1..Len(p.case_tables[t]) :
            ValidOpcodeIndex(p, p.case_tables[t][e].target)

IsSelectOpcode(opcode) == opcode.op \in {"Select", "SelectPlural"}

OperandsWithinPools(p) ==
    /\ \A i \in 1..Len(p.opcodes) :
          LET opcode == p.opcodes[i] IN
          /\ opcode.op \in {"EmitText", "PushStr"} => opcode.sidx < Len(p.string_pool)
          /\ opcode.op = "PushArg" => opcode.aidx < Len(p.arg_names)
          /\ IsSelectOpcode(opcode) =>
                opcode.aidx < Len(p.arg_names) /\ opcode.table < Len(p.case_tables)
    /\ \A t \in 1..Len(p.case_tables) :
          \A e \in 1..Len(p.case_tables[t]) :
              p.case_tables[t][e].key.k = "String" =>
                  p.case_tables[t][e].key.sidx < Len(p.string_pool)

ReferencedTablesHaveOther(p) ==
    \A i \in 1..Len(p.opcodes) :
        (IsSelectOpcode(p.opcodes[i]) /\ p.opcodes[i].table < Len(p.case_tables)) =>
            \E e \in 1..Len(p.case_tables[p.opcodes[i].table + 1]) :
                p.case_tables[p.opcodes[i].table + 1][e].key.k = "Other"

CompiledValidated == stage \in {"compiled", "executed"} /\ diagnostics = <<>>

\* C13: the program compiled from a message that validation passes has one
\* End and it is the last opcode; every Jump goes forward by at least one to
\* a valid opcode index; every case-table target is a valid opcode index;
\* every string, argument and table operand is within its pool; and every
\* case table a Select or SelectPlural refers to has an Other entry.
C13_CompiledProgramIsWellFormed ==
    CompiledValidated =>
        /\ EndIsLastAndOnly(program)
        /\ JumpsLandForward(program)
        /\ TargetsValid(program)
        /\ OperandsWithinPools(program)
        /\ ReferencedTablesHaveOther(program)

\* A validated message with a select inside a case body and a `*` default
\* case has been compiled.
C13_Witness ==
    /\ CompiledValidated
    /\ HasNestedSelect(message)
    /\ \E i \in 1..Len(message) :
          /\ message[i].seg = "Select"
          /\ \E j \in 1..Len(message[i].cases) : message[i].cases[j].is_default
    /\ \E i \in 1..Len(program.opcodes) : program.opcodes[i].op = "Jump"

(***************************************************************************)
(* The selects of a message, at any depth, that have neither an Other case *)
(* nor a `*` case, counted from the source text.                           *)
(***************************************************************************)
RECURSIVE SelectsMissingOther(_)
SelectsMissingOther(segments) ==
    IF segments = <<>> THEN 0
    ELSE LET segment == Head(segments)
             here == IF segment.seg = "Select"
                     THEN (IF \E j \in 1..Len(segment.cases) : IsOtherCase(segment.cases[j])
                           THEN 0 ELSE 1)
                          + Sum([j \in 1..Len(segment.cases) |->
                                    SelectsMissingOther(segment.cases[j].value)])
                     ELSE 0
         IN here + SelectsMissingOther(Tail(segments))

CountCode(codes, code) == Cardinality({i \in 1..Len(codes) : codes[i] = code})

\* C14: validate_message reports MF2E010 once for every select or plural
\* expression, at any depth inside case bodies, that has neither an Other
\* case nor a `*` case, and for no other select.
C14_MissingOtherReportedAtAnyDepth ==
    stage # "parsed" =>
        CountCode(diagnostics, "MF2E010") = SelectsMissingOther(message)

\* A validated message whose outer select has an Other or `*` case and whose
\* inner select has none: one MF2E010, for the inner select.
C14_Witness ==
    /\ stage = "validated"
    /\ \E i \in 1..Len(message) :
          /\ message[i].seg = "Select"
          /\ \E j \in 1..Len(message[i].cases) : message[i].cases[j].is_default
          /\ \E j \in 1..Len(message[i].cases) :
                SelectsMissingOther(message[i].cases[j].value) = 1
    /\ CountCode(diagnostics, "MF2E010") = 1

(***************************************************************************)
(* The variable expressions of a message, at any depth, whose formatter    *)
(* name is not a known one.                                                 *)
(***************************************************************************)
RECURSIVE UnknownFormatterVars(_)
UnknownFormatterVars(segments) ==
    IF segments = <<>> THEN 0
    ELSE LET segment == Head(segments)
             here == CASE segment.seg = "Text" -> 0
                       [] segment.seg = "Variable" ->
                            IF IsSome(segment.formatter)
                               /\ ~is_known_formatter(Unwrap(segment.formatter))
                            THEN 1 ELSE 0
                       [] segment.seg = "Select" ->
                            Sum([j \in 1..Len(segment.cases) |->
                                    UnknownFormatterVars(segment.cases[j].value)])
         IN here + UnknownFormatterVars(Tail(segments))

\* C15: validate_message reports MF2E030 for every variable expression whose
\* formatter name is not a known one, whatever else is wrong with the
\* expression: there are at least as many MF2E030 diagnostics as such
\* expressions.
C15_UnknownFormatterAlwaysReported ==
    stage # "parsed" =>
        CountCode(diagnostics, "MF2E030") >= UnknownFormatterVars(message)

(***************************************************************************)
(* The case table built from a select expression (compiler.rs lines 79-91  *)
(* and 114): its first entry is the first case, whose body starts at the   *)
(* opcode after the Select, and it is pushed when the cases are compiled.  *)
(***************************************************************************)
IsOwnTable(p, select_pos, table) ==
    /\ table < Len(p.case_tables)
    /\ p.case_tables[table + 1] # <<>> =>
          p.case_tables[table + 1][1].target = select_pos + 1

\* C20: in a compiled program the table operand of every Select and
\* SelectPlural is the index of the case table built from the cases of the
\* same select expression, nested and sibling selects included.
C20_SelectRefersToOwnTable ==
    CompiledValidated =>
        \A i \in 1..Len(program.opcodes) :
            IsSelectOpcode(program.opcodes[i]) =>
                IsOwnTable(program, i - 1, program.opcodes[i].table)

(***************************************************************************)
(* lexer.rs.  The input is a sequence of one-byte strings; a lexer is its  *)
(* offset, its mode stack and the tokens pushed so far.  Tokens keep their *)
(* kind, their text and the offset they start at; lines and columns are    *)
(* left out.                                                               *)
(***************************************************************************)
MaxLexLen == 4

LexBytes == {"{", "}", "a", " ", "-", ">", "1", "%"}

LexInputs == UNION {[1..n -> LexBytes] : n \in 0..MaxLexLen}

Token(kind, text, start) == [kind |-> kind, text |-> text, start |-> start]

LexError(text) == Err("Lex", text)

\* Lexer::new
NewLexer == [offset |-> 0, mode_stack |-> <<"Text">>, tokens |-> <<>>]

ByteAt(input, offset) == input[offset + 1]

is_ident_start(byte) == byte \in {"a", "_"}

is_ident_continue(byte) == byte \in {"a", "_", "1", "-"}

is_ascii_digit(byte) == byte = "1"

\* The `while self.offset < self.bytes.len()` loops that advance over the
\* bytes of a set: the offset they stop at.
RECURSIVE AdvanceWhile(_, _, _)
AdvanceWhile(input, offset, bytes) ==
    IF offset < Len(input) /\ ByteAt(input, offset) \in bytes
    THEN AdvanceWhile(input, offset + 1, bytes)
    ELSE offset

PushToken(lx, token, offset) ==
    [lx EXCEPT !.tokens = Append(@, token), !.offset = offset]

\* Lexer::is_expr_mode
is_expr_mode(lx) == lx.mode_stack # <<>> /\ lx.mode_stack[Len(lx.mode_stack)] = "Expr"

\* Vec::pop: nothing happens on an empty stack.
PopMode(stack) == IF stack = <<>> THEN stack ELSE SubSeq(stack, 1, Len(stack) - 1)

\* A step of the lexer: the error it returns, if any, and the lexer after it.
LexStep(error, lx) == [error |-> error, lexer |-> lx]

\* The `}` arm of lex_text_token with no test of the mode stack: what the
\* brace statement is compared against.
TextRBraceUnchecked(lx, offset) ==
    LexStep(None, [PushToken(lx, Token("RBrace", <<"}">>, offset), offset + 1)
                      EXCEPT !.mode_stack = PopMode(@)])

\* The `}` arm of lex_text_token (lines 125-135).
TextRBrace(lx, offset) ==
    IF Len(lx.mode_stack) <= 1
    THEN LexStep(Some(LexError("unbalanced brace")), lx)
    ELSE LexStep(None, [PushToken(lx, Token("RBrace", <<"}">>, offset), offset + 1)
                           EXCEPT !.mode_stack = PopMode(@)])

\* Lexer::lex_text_token
lex_text_token(input, lx) ==
    LET start == lx.offset
        stop == AdvanceWhile(input, start, LexBytes \ {"{", "}"})
        lx1 == IF stop > start
               THEN PushToken(lx, Token("Text", SubSeq(input, start + 1, stop), start), stop)
               ELSE lx
    IN IF stop >= Len(input) THEN LexStep(None, lx1)
       ELSE IF ByteAt(input, stop) = "{"
            THEN LexStep(None, [PushToken(lx1, Token("LBrace", <<"{">>, stop), stop + 1)
                                   EXCEPT !.mode_stack = Append(@, "Expr")])
            ELSE TextRBrace(lx1, stop)

\* Lexer::lex_number returns the error or the offset after the number; the
\* bytes of the model hold no `.`.
lex_number(input, start) ==
    LET digits == IF ByteAt(input, start) = "-" THEN start + 1 ELSE start
        stop == AdvanceWhile(input, digits, {"1"})
    IN IF stop = digits THEN [error |-> Some(LexError("invalid number")), offset |-> stop]
       ELSE [error |-> None, offset |-> stop]

\* Lexer::lex_expr_token
lex_expr_token(input, lx) ==
    LET at == AdvanceWhile(input, lx.offset, {" "})
        lx0 == [lx EXCEPT !.offset = at]
    IN IF at >= Len(input) THEN LexStep(None, lx0)
       ELSE LET byte == ByteAt(input, at) IN
            CASE byte = "}" ->
                   LexStep(None, [PushToken(lx0, Token("RBrace", <<"}">>, at), at + 1)
                                     EXCEPT !.mode_stack = PopMode(@)])
              [] byte = "{" ->
                   LexStep(None, [PushToken(lx0, Token("LBrace", <<"{">>, at), at + 1)
                                     EXCEPT !.mode_stack = Append(@, "Text")])
              [] byte = "-" /\ at + 1 < Len(input) /\ ByteAt(input, at + 1) = ">" ->
                   LexStep(None, PushToken(lx0, Token("Arrow", <<"-", ">">>, at), at + 2))
              [] byte = "-" \/ is_ascii_digit(byte) ->
                   (LET number == lex_number(input, at) IN
                    IF IsSome(number.error) THEN LexStep(number.error, lx0)
                    ELSE LexStep(None,
                             PushToken(lx0, Token("Number",
                                               SubSeq(input, at + 1, number.offset), at),
                                       number.offset)))
              [] is_ident_start(byte) ->
                   (LET stop == AdvanceWhile(input, at + 1, {"a", "_", "1", "-"}) IN
                    LexStep(None,
                        PushToken(lx0, Token("Ident", SubSeq(input, at + 1, stop), at), stop)))
              [] OTHER -> LexStep(Some(LexError("unexpected character")), lx0)

LexInit ==
    /\ xstage = "lexing"
    /\ lex_input \in LexInputs
    /\ lexed = [lexer |-> NewLexer, result |-> None]

\* One iteration of the loop of lex_all in text mode.
LexTextToken ==
    /\ xstage = "lexing"
    /\ lexed.lexer.offset < Len(lex_input)
    /\ ~is_expr_mode(lexed.lexer)
    /\ LET step == lex_text_token(lex_input, lexed.lexer) IN
       /\ lexed' = [lexer |-> step.lexer, result |-> step.error]
       /\ xstage' = IF IsSome(step.error) THEN "done" ELSE "lexing"
    /\ UNCHANGED lex_input

\* One iteration of the loop of lex_all in expression mode.
LexExprToken ==
    /\ xstage = "lexing"
    /\ lexed.lexer.offset < Len(lex_input)
    /\ is_expr_mode(lexed.lexer)
    /\ LET step == lex_expr_token(lex_input, lexed.lexer) IN
       /\ lexed' = [lexer |-> step.lexer, result |-> step.error]
       /\ xstage' = IF IsSome(step.error) THEN "done" ELSE "lexing"
    /\ UNCHANGED lex_input

\* The end of lex_all (lines 74-83).
LexAllReturn ==
    /\ xstage = "lexing"
    /\ lexed.lexer.offset >= Len(lex_input)
    /\ lexed' = [lexed EXCEPT !.result =
                    IF Len(lexed.lexer.mode_stack) > 1
                    THEN Some(LexError("unclosed brace"))
                    ELSE Some(Ok(lexed.lexer.tokens))]
    /\ xstage' = "done"
    /\ UNCHANGED lex_input

InitLex == CoreIdle /\ RunIdle /\ LexInit /\ ExtractIdle /\ ScanIdle /\ IdMapIdle

NextLex ==
    \/ LexTextToken /\ UNCHANGED <<core_vars, run_vars, extract_vars, scan_vars, idmap_vars>>
    \/ LexExprToken /\ UNCHANGED <<core_vars, run_vars, extract_vars, scan_vars, idmap_vars>>
    \/ LexAllReturn /\ UNCHANGED <<core_vars, run_vars, extract_vars, scan_vars, idmap_vars>>

SpecLex == InitLex /\ [][NextLex]_vars

\* The braces of an input are well nested: no prefix holds more `}` than `{`
\* and the whole input holds as many of each.
BraceDepth(input, n) ==
    Cardinality({i \in 1..n : input[i] = "{"}) - Cardinality({i \in 1..n : input[i] = "}"})

WellNested(input) ==
    /\ \A n \in 0..Len(input) : BraceDepth(input, n) >= 0
    /\ BraceDepth(input, Len(input)) = 0

LexReturned == xstage = "done"

LexReturnedOk == LexReturned /\ Unwrap(lexed.result).ok

\* C16: lex_all returns an error for every input whose braces are not well
\* nested, and it returns Ok only with the mode stack back to the single
\* initial Text mode at the end of the input.
C16_UnbalancedBracesFail ==
    /\ (LexReturned /\ ~WellNested(lex_input)) => ~Unwrap(lexed.result).ok
    /\ LexReturnedOk =>
          /\ lexed.lexer.mode_stack = <<"Text">>
          /\ lexed.lexer.offset = Len(lex_input)

\* An input that reaches, after some tokens, a `}` with no `{` open has
\* failed with "unbalanced brace".
C16_Witness ==
    /\ LexReturned
    /\ ~WellNested(lex_input)
    /\ lexed.lexer.tokens # <<>>
    /\ lexed.result = Some(LexError("unbalanced brace"))

(***************************************************************************)
(* id_map.rs of the build tool.  An IdMap is its two BTreeMaps, `entries`  *)
(* from keys to ids and `reverse` from ids to keys, held as functions.     *)
(***************************************************************************)
MaxBuildId == 2
MaxInserts == 4

BuildKeys == {"k1", "k2", "k3"}

BuildIds == 0..MaxBuildId

\* IdMap::new
NewIdMap == [entries |-> <<>>, reverse |-> <<>>]

\* BTreeMap::insert
MapInsert(map, key, value) ==
    [k \in (DOMAIN map) \cup {key} |-> IF k = key THEN value ELSE map[k]]

Collision(id, existing, incoming) ==
    [ok |-> FALSE, kind |-> "Collision", id |-> id, existing |-> existing,
     incoming |-> incoming]

\* An insert with no look at `reverse`: what the statement about shared ids
\* is compared against.
insert_unchecked(map, key, id) ==
    [result |-> Ok("unit"),
     map |-> [entries |-> MapInsert(map.entries, key, id),
              reverse |-> MapInsert(map.reverse, id, key)]]

\* IdMap::insert returns its result and the map after the call.
insert(map, key, id) ==
    IF id \in DOMAIN map.reverse /\ map.reverse[id] # key
    THEN [result |-> Collision(id, map.reverse[id], key), map |-> map]
    ELSE [result |-> Ok("unit"),
          map |-> [entries |-> MapInsert(map.entries, key, id),
                   reverse |-> MapInsert(map.reverse, id, key)]]

IdMapInit ==
    /\ istage = "open"
    /\ build_ids = NewIdMap
    /\ inserted = [count |-> 0, call |-> None, result |-> None, before |-> NewIdMap]

\* One call of IdMap::insert, with any key and any id.
Insert ==
    /\ istage = "open"
    /\ inserted.count < MaxInserts
    /\ \E key \in BuildKeys, id \in BuildIds :
          LET done == insert(build_ids, key, id) IN
          /\ build_ids' = done.map
          /\ inserted' = [count |-> inserted.count + 1,
                          call |-> Some([key |-> key, id |-> id]),
                          result |-> Some(done.result),
                          before |-> build_ids]
    /\ UNCHANGED istage

InitIdMap == CoreIdle /\ RunIdle /\ LexIdle /\ ExtractIdle /\ ScanIdle /\ IdMapInit

NextIdMap ==
    \/ Insert /\ UNCHANGED <<core_vars, run_vars, lex_vars, extract_vars, scan_vars>>

SpecIdMap == InitIdMap /\ [][NextIdMap]_vars

\* The keys of a map that hold an id.
HoldersOf(map, id) == {k \in DOMAIN map.entries : map.entries[k] = id}

\* The last insert gave an id that a different key of the map held.
InsertedHeldId ==
    /\ istage = "open"
    /\ IsSome(inserted.call)
    /\ HoldersOf(inserted.before, Unwrap(inserted.call).id) \ {Unwrap(inserted.call).key} # {}

\* C19: after any sequence of inserts no two distinct keys of the map share
\* an id, and an insert of an id that a different key holds returns
\* Collision with the id, the holding key and the incoming key, and leaves
\* the map as it was.
C19_NoTwoKeysShareAnId ==
    /\ istage = "open" =>
          \A k1 \in DOMAIN build_ids.entries, k2 \in DOMAIN build_ids.entries :
              k1 # k2 => build_ids.entries[k1] # build_ids.entries[k2]
    /\ InsertedHeldId =>
          /\ \E existing \in HoldersOf(inserted.before, Unwrap(inserted.call).id) :
                inserted.result = Some(Collision(Unwrap(inserted.call).id, existing,
                                                 Unwrap(inserted.call).key))
          /\ build_ids = inserted.before

\* An insert into a map of two keys has returned Collision.
C19_Witness ==
    /\ InsertedHeldId
    /\ Cardinality(DOMAIN build_ids.entries) >= 2
    /\ ~Unwrap(inserted.result).ok

(***************************************************************************)
(* extract.rs.  The source text is a sequence of one-byte strings; the     *)
(* scanner is its index into it (lines and columns are left out).  Every   *)
(* ArgSpec the extractor builds has required = true, which the model       *)
(* leaves out.                                                             *)
(***************************************************************************)
MaxChunks == 4

Quote == "\""
Backslash == "\\"
Newline == "\n"
Eof == "eof"

\* t!("k")
CallK == <<"t", "!", "(", Quote, "k", Quote, ")">>
\* t!("j",n:num)
CallJ == <<"t", "!", "(", Quote, "j", Quote, ",", "n", ":", "n", "u", "m", ")">>
\* t!(\"k\"): the text of a call as it is written inside a string literal
EscapedCall == <<"t", "!", "(", Backslash, Quote, "k", Backslash, Quote, ")">>

\* The pieces the source texts are put together from.
Chunks ==
    {CallK, CallJ, EscapedCall, <<"/", "/">>, <<Newline>>, <<"/", "*">>, <<"*", "/">>,
     <<Quote>>, <<"r", "#", Quote>>, <<Quote, "#">>, <<"a">>, <<Backslash>>}

ChunkLists == UNION {[1..n -> Chunks] : n \in 0..MaxChunks}

RECURSIVE Flatten(_)
Flatten(chunks) ==
    IF chunks = <<>> THEN <<>> ELSE Head(chunks) \o Flatten(Tail(chunks))

ExtractedMessage(key, specs) == [key |-> key, args |-> specs]

ExtractError(text) == Err("Extract", text)

\* Scanner::peek at an index
peek(inp, i) == IF i >= 0 /\ i < Len(inp) THEN inp[i + 1] ELSE Eof

\* Scanner::bump: the index after it
bump(inp, i) == IF i < Len(inp) THEN i + 1 ELSE i

extract_is_ident_start(byte) == byte \in {"a", "j", "k", "m", "n", "r", "t", "u", "_"}

\* extract.rs has no digits in the bytes of the model.
extract_is_ident_continue(byte) == extract_is_ident_start(byte)

is_ascii_whitespace(byte) == byte \in {" ", Newline}

starts_line_comment(inp, i) == peek(inp, i) = "/" /\ peek(inp, i + 1) = "/"

starts_block_comment(inp, i) == peek(inp, i) = "/" /\ peek(inp, i + 1) = "*"

starts_raw_string(inp, i) ==
    /\ peek(inp, i) = "r"
    /\ peek(inp, AdvanceWhile(inp, i + 1, {"#"})) = Quote

\* A starts_t_macro that does not look at the byte before: what the
\* statement about recognised calls is compared against.
starts_t_macro_anywhere(inp, i) == peek(inp, i) = "t" /\ peek(inp, i + 1) = "!"

starts_t_macro(inp, i) ==
    IF peek(inp, i) # "t" \/ peek(inp, i + 1) # "!" THEN FALSE
    ELSE IF i > 0 /\ extract_is_ident_continue(peek(inp, i - 1)) THEN FALSE
         ELSE TRUE

\* skip_line_comment: the index after it
RECURSIVE skip_line_comment(_, _)
skip_line_comment(inp, i) ==
    IF i >= Len(inp) THEN i
    ELSE IF peek(inp, i) = Newline THEN i + 1
         ELSE skip_line_comment(inp, i + 1)

\* The loop of skip_block_comment.
RECURSIVE BlockCommentLoop(_, _)
BlockCommentLoop(inp, i) ==
    IF i >= Len(inp) THEN i
    ELSE IF peek(inp, i) = "*" /\ peek(inp, i + 1) = "/" THEN i + 2
         ELSE BlockCommentLoop(inp, i + 1)

skip_block_comment(inp, i) == BlockCommentLoop(inp, bump(inp, bump(inp, i)))

\* The loop of skip_string: Ok(index after the literal) or the error.
RECURSIVE StringLoop(_, _)
StringLoop(inp, i) ==
    IF i >= Len(inp) THEN ExtractError("unterminated string literal")
    ELSE CASE peek(inp, i) = Backslash -> StringLoop(inp, bump(inp, i + 1))
           [] peek(inp, i) = Quote -> Ok(i + 1)
           [] OTHER -> StringLoop(inp, i + 1)

skip_string(inp, i) == StringLoop(inp, i + 1)

\* The loop of skip_raw_string (lines 184-205).
RECURSIVE RawStringLoop(_, _, _)
RawStringLoop(inp, i, hashes) ==
    IF i >= Len(inp) THEN ExtractError("unterminated raw string")
    ELSE IF peek(inp, i) = Quote
         THEN LET run == AdvanceWhile(inp, i + 1, {"#"})
                  stop == IF run - (i + 1) > hashes THEN i + 1 + hashes ELSE run
              IN IF stop - (i + 1) = hashes THEN Ok(stop)
                 ELSE RawStringLoop(inp, stop, hashes)
         ELSE RawStringLoop(inp, i + 1, hashes)

skip_raw_string(inp, i) ==
    LET open == AdvanceWhile(inp, i + 1, {"#"})
        hashes == open - (i + 1)
    IN IF peek(inp, open) # Quote THEN ExtractError("invalid raw string")
       ELSE RawStringLoop(inp, open + 1, hashes)

skip_ws(inp, i) == AdvanceWhile(inp, i, {" ", Newline})

\* What a parse step returns: the value and the index after it.
Parsed(value, i) == [ok |-> TRUE, value |-> value, index |-> i]

\* parse_string_value, from the byte after the opening quote.
RECURSIVE StringValueLoop(_, _, _)
StringValueLoop(inp, i, out) ==
    IF i >= Len(inp) THEN ExtractError("unterminated string literal")
    ELSE CASE peek(inp, i) = Backslash ->
                IF i + 1 < Len(inp)
                THEN StringValueLoop(inp, i + 2, Append(out, peek(inp, i + 1)))
                ELSE StringValueLoop(inp, i + 1, out)
           [] peek(inp, i) = Quote -> Parsed(out, i + 1)
           [] OTHER -> StringValueLoop(inp, i + 1, Append(out, peek(inp, i)))

parse_string_value(inp, i) ==
    IF peek(inp, i) # Quote THEN ExtractError("expected string literal")
    ELSE StringValueLoop(inp, i + 1, <<>>)

parse_ident(inp, i) ==
    IF i >= Len(inp) THEN ExtractError("unexpected eof")
    ELSE IF ~extract_is_ident_start(peek(inp, i)) THEN ExtractError("expected identifier")
         ELSE LET stop == AdvanceWhile(inp, i + 1,
                              {"a", "j", "k", "m", "n", "r", "t", "u", "_"})
              IN Parsed(SubSeq(inp, i + 1, stop), stop)

parse_arg_type(inp, i) ==
    LET ident == parse_ident(inp, i) IN
    IF ~ident.ok THEN ident
    ELSE LET name == to_ascii_lowercase(ident.value) IN
         CASE name = <<"n", "u", "m">> -> Parsed("Number", ident.index)
           [] name = <<"a", "n", "y">> -> Parsed("Any", ident.index)
           [] name = <<"u", "n", "i", "t">> -> Parsed("Unit", ident.index)
           [] OTHER -> ExtractError("unknown argument type")

\* The argument loop of parse_t_macro (lines 226-268): the specs and the
\* index of the closing parenthesis.
RECURSIVE ArgsLoop(_, _, _)
ArgsLoop(inp, i, specs) ==
    LET at == skip_ws(inp, i) IN
    IF peek(inp, at) = ")" THEN Parsed(specs, at)
    ELSE LET name == parse_ident(inp, at) IN
         IF ~name.ok THEN name
         ELSE LET colon == skip_ws(inp, name.index) IN
              IF peek(inp, colon) # ":"
              THEN ExtractError("expected ':' after argument name")
              ELSE LET arg_type == parse_arg_type(inp, skip_ws(inp, colon + 1)) IN
                   IF ~arg_type.ok THEN arg_type
                   ELSE LET next == skip_ws(inp, arg_type.index)
                            pushed == Append(specs, ArgSpec(name.value, arg_type.value))
                        IN CASE peek(inp, next) = "," -> ArgsLoop(inp, next + 1, pushed)
                             [] peek(inp, next) = ")" -> Parsed(pushed, next)
                             [] OTHER -> ExtractError("expected ',' or ')' after argument")

parse_t_macro(inp, i) ==
    LET open == skip_ws(inp, bump(inp, bump(inp, i))) IN
    IF peek(inp, open) # "(" THEN ExtractError("expected '(' after t!")
    ELSE LET quote == skip_ws(inp, open + 1) IN
         IF peek(inp, quote) # Quote THEN ExtractError("expected string literal key")
         ELSE LET key == parse_string_value(inp, quote) IN
              IF ~key.ok THEN key
              ELSE LET comma == skip_ws(inp, key.index)
                       specs == IF peek(inp, comma) = ","
                                THEN ArgsLoop(inp, comma + 1, <<>>)
                                ELSE Parsed(<<>>, comma)
                   IN IF ~specs.ok THEN specs
                      ELSE LET close == skip_ws(inp, specs.index) IN
                           IF peek(inp, close) # ")"
                           THEN ExtractError("expected ')' to close t! macro")
                           ELSE Parsed(ExtractedMessage(key.value, specs.value), close + 1)

\* The loop of extract_messages.
RECURSIVE ExtractLoop(_, _, _)
ExtractLoop(inp, i, msgs) ==
    IF i >= Len(inp) THEN Ok(msgs)
    ELSE CASE starts_line_comment(inp, i) -> ExtractLoop(inp, skip_line_comment(inp, i), msgs)
           [] starts_block_comment(inp, i) ->
                ExtractLoop(inp, skip_block_comment(inp, i), msgs)
           [] starts_raw_string(inp, i) ->
                (LET skipped == skip_raw_string(inp, i) IN
                 IF skipped.ok THEN ExtractLoop(inp, skipped.value, msgs) ELSE skipped)
           [] peek(inp, i) = Quote ->
                (LET skipped == skip_string(inp, i) IN
                 IF skipped.ok THEN ExtractLoop(inp, skipped.value, msgs) ELSE skipped)
           [] starts_t_macro(inp, i) ->
                (LET call == parse_t_macro(inp, i) IN
                 IF call.ok THEN ExtractLoop(inp, call.index, Append(msgs, call.value))
                 ELSE call)
           [] OTHER -> ExtractLoop(inp, i + 1, msgs)

extract_messages(inp) == ExtractLoop(inp, 0, <<>>)

ScanInit ==
    /\ sstage = "read"
    /\ \E chunks \in ChunkLists : scan_text = [chunks |-> chunks, bytes |-> Flatten(chunks)]
    /\ scanned = None

ExtractMessages ==
    /\ sstage = "read"
    /\ scanned' = Some(extract_messages(scan_text.bytes))
    /\ sstage' = "scanned"
    /\ UNCHANGED scan_text

InitScan == CoreIdle /\ RunIdle /\ LexIdle /\ ExtractIdle /\ ScanInit /\ IdMapIdle

NextScan ==
    \/ ExtractMessages /\ UNCHANGED <<core_vars, run_vars, lex_vars, extract_vars, idmap_vars>>

SpecScan == InitScan /\ [][NextScan]_vars

(***************************************************************************)
(* Where a byte of a source text lies, read off byte by byte: in code, in  *)
(* a line comment, in a block comment (not nested), in a string literal    *)
(* with backslash escapes, or in a raw string literal that `h` hashes      *)
(* opened and a quote followed by `h` hashes closes.                       *)
(***************************************************************************)
Mode(m, h, c) == [m |-> m, h |-> h, c |-> c]

InCode == Mode("code", 0, 0)

\* A byte read in code.
CodeByte(byte) ==
    CASE byte = "/" -> Mode("slash", 0, 0)
      [] byte = "r" -> Mode("r", 0, 0)
      [] byte = Quote -> Mode("string", 0, 0)
      [] OTHER -> InCode

ModeStep(mode, byte) ==
    CASE mode.m = "code" -> CodeByte(byte)
      [] mode.m = "slash" ->
           (CASE byte = "/" -> Mode("line", 0, 0)
              [] byte = "*" -> Mode("block", 0, 0)
              [] OTHER -> CodeByte(byte))
      [] mode.m = "r" ->
           (CASE byte = "#" -> Mode("r", mode.h + 1, 0)
              [] byte = Quote -> Mode("raw", mode.h, 0)
              [] OTHER -> CodeByte(byte))
      [] mode.m = "line" -> IF byte = Newline THEN InCode ELSE mode
      [] mode.m = "block" -> IF byte = "*" THEN Mode("star", 0, 0) ELSE mode
      [] mode.m = "star" ->
           (CASE byte = "/" -> InCode
              [] byte = "*" -> mode
              [] OTHER -> Mode("block", 0, 0))
      [] mode.m = "string" ->
           (CASE byte = Backslash -> Mode("escape", 0, 0)
              [] byte = Quote -> InCode
              [] OTHER -> mode)
      [] mode.m = "escape" -> Mode("string", 0, 0)
      [] mode.m = "raw" ->
           (IF byte = Quote
            THEN (IF mode.h = 0 THEN InCode ELSE Mode("closing", mode.h, 0))
            ELSE mode)
      [] mode.m = "closing" ->
           (CASE byte = "#" ->
                   (IF mode.c + 1 = mode.h THEN InCode ELSE Mode("closing", mode.h, mode.c + 1))
              [] byte = Quote -> Mode("closing", mode.h, 0)
              [] OTHER -> Mode("raw", mode.h, 0))

RECURSIVE ModeAfter(_, _)
ModeAfter(mode, bytes) ==
    IF bytes = <<>> THEN mode ELSE ModeAfter(ModeStep(mode, Head(bytes)), Tail(bytes))

\* Outside every comment and literal: in code, or after a `/` or an `r#..`
\* that has opened nothing yet.
OutsideRegions(mode) == mode.m \in {"code", "slash", "r"}

IdentContinuation == {"a", "j", "k", "m", "n", "r", "t", "u", "_"}

CallChunks == {CallK, CallJ}

\* What a call says.
MessageOf(chunk) ==
    IF chunk = CallK THEN ExtractedMessage(<<"k">>, <<>>)
    ELSE ExtractedMessage(<<"j">>, <<ArgSpec(<<"n">>, "Number")>>)

\* The calls of a text that lie outside every region and follow no
\* identifier byte, in source order.
RECURSIVE CallsOutside(_, _, _)
CallsOutside(chunks, mode, prev) ==
    IF chunks = <<>> THEN <<>>
    ELSE LET chunk == Head(chunks)
             here == IF /\ chunk \in CallChunks
                        /\ OutsideRegions(mode)
                        /\ prev \notin IdentContinuation
                     THEN <<MessageOf(chunk)>> ELSE <<>>
         IN here \o CallsOutside(Tail(chunks), ModeAfter(mode, chunk), chunk[Len(chunk)])

\* The calls that lie inside a region or follow an identifier byte.
CallsSkipped(chunks) ==
    Cardinality({n \in 1..Len(chunks) : chunks[n] \in CallChunks \cup {EscapedCall}})
        - Len(CallsOutside(chunks, InCode, Eof))

ScannedOk == sstage = "scanned" /\ Unwrap(scanned).ok

\* C18: the messages extract_messages returns are exactly the calls that lie
\* outside line comments, block comments, string literals and raw string
\* literals and that follow no identifier byte, in source order; what looks
\* like a call inside such a region yields no message.
C18_ExtractsExactlyCallsOutsideRegions ==
    ScannedOk => Unwrap(scanned).value = CallsOutside(scan_text.chunks, InCode, Eof)

\* A text that starts with a call inside a comment and has a call after the
\* comment has been scanned, and one message came back.
C18_Witness ==
    /\ ScannedOk
    /\ Len(scan_text.chunks) >= 4
    /\ scan_text.chunks[1] \in {<<"/", "/">>, <<"/", "*">>}
    /\ scan_text.chunks[2] \in CallChunks
    /\ CallsSkipped(scan_text.chunks) = 1
    /\ Len(Unwrap(scanned).value) = 1

(***************************************************************************)
(* extract_pipeline.rs, catalog_builder.rs and build_id_map of id_map.rs.  *)
(* The files are given by what extract_messages returned for each of them; *)
(* derive_message_id is a fixed function of the salt and the key whose     *)
(* values may coincide, as the first four bytes of a hash may.             *)
(***************************************************************************)
MaxExtracted == 3

\* The keys in the order of the BTreeMap.
KeyOrder == <<"k1", "k2">>

ExtractedArgs == {<<>>, <<ArgSpec("n", "Number")>>, <<ArgSpec("n", "String")>>}

ExtractedMessages ==
    {ExtractedMessage(KeyOrder[k], specs) : k \in 1..Len(KeyOrder), specs \in ExtractedArgs}

\* The messages of one run, in the order they are met, and the positions
\* after which the next file starts.
ExtractRuns ==
    {[msgs |-> msgs, cuts |-> cuts] :
        msgs \in UNION {[1..n -> ExtractedMessages] : n \in 0..MaxExtracted},
        cuts \in SUBSET (1..(MaxExtracted - 1))}

\* The files of a run: what extract_messages returned for each.
RECURSIVE FilesOf(_, _, _)
FilesOf(msgs, cuts, from) ==
    IF from > Len(msgs) THEN <<>>
    ELSE LET ends == {c \in cuts : c >= from /\ c < Len(msgs)}
             to == IF ends = {} THEN Len(msgs) ELSE First(ends)
         IN <<SubSeq(msgs, from, to)>> \o FilesOf(msgs, cuts, to + 1)

Salts == {"s1", "s2"}

\* derive_message_id: under salt s2 the two keys get the same id.
derive_message_id(key, salt) == IF salt = "s2" THEN 7 ELSE IndexOf(KeyOrder, key)

\* build_id_map (the loop from a map and the keys left)
RECURSIVE BuildIdMapLoop(_, _, _)
BuildIdMapLoop(map, keys, salt) ==
    IF keys = <<>> THEN Ok(map)
    ELSE LET done == insert(map, Head(keys), derive_message_id(Head(keys), salt)) IN
         IF done.result.ok THEN BuildIdMapLoop(done.map, Tail(keys), salt)
         ELSE done.result

build_id_map(keys, salt) == BuildIdMapLoop(NewIdMap, keys, salt)

CatalogMessage(key, id, specs) == [key |-> key, id |-> id, args |-> specs]

\* build_catalog; the keys of the model are short, so IdMap::hash succeeds.
build_catalog(msgs, salt) ==
    LET id_map == build_id_map([i \in 1..Len(msgs) |-> msgs[i].key], salt) IN
    IF ~id_map.ok THEN id_map
    ELSE IF \E i \in 1..Len(msgs) : msgs[i].key \notin DOMAIN id_map.value.entries
         THEN Err("MissingKey", "missing message id")
         ELSE Ok([catalog |-> [i \in 1..Len(msgs) |->
                                  CatalogMessage(msgs[i].key,
                                                 id_map.value.entries[msgs[i].key],
                                                 msgs[i].args)],
                  id_map |-> id_map.value])

ConflictingArgs(key) == Err("ConflictingArgs", key)

\* A comparison that finds no difference: what the collision statement is
\* compared against.
ArgsNeverDiffer(existing, incoming) == FALSE

\* existing.args != message.args (line 54)
ArgsDiffer(existing, incoming) == existing.args # incoming.args

\* by_key.into_values(): the values in the order of their keys.
RECURSIVE IntoValues(_, _)
IntoValues(by_key, keys) ==
    IF keys = <<>> THEN <<>>
    ELSE (IF Head(keys) \in DOMAIN by_key THEN <<by_key[Head(keys)]>> ELSE <<>>)
         \o IntoValues(by_key, Tail(keys))

ExtractInit ==
    /\ estage = "collecting"
    /\ \E run \in ExtractRuns, salt \in Salts :
          files_in = [files |-> FilesOf(run.msgs, run.cuts, 1), salt |-> salt]
    /\ extracted = [taken |-> 0, by_key |-> <<>>, result |-> None]

\* One iteration of the loop over the messages of the files (lines 52-60).
TakeMessage ==
    /\ estage = "collecting"
    /\ extracted.taken < Len(Flatten(files_in.files))
    /\ LET incoming == Flatten(files_in.files)[extracted.taken + 1] IN
       IF incoming.key \in DOMAIN extracted.by_key
       THEN IF ArgsDiffer(extracted.by_key[incoming.key], incoming)
            THEN /\ extracted' = [extracted EXCEPT !.result = Some(ConflictingArgs(incoming.key))]
                 /\ estage' = "done"
            ELSE /\ extracted' = [extracted EXCEPT !.taken = @ + 1]
                 /\ estage' = estage
       ELSE /\ extracted' = [extracted EXCEPT !.taken = @ + 1,
                                             !.by_key = MapInsert(@, incoming.key, incoming)]
            /\ estage' = estage
    /\ UNCHANGED files_in

\* The end of extract_from_files (lines 62-69).
BuildCatalog ==
    /\ estage = "collecting"
    /\ extracted.taken = Len(Flatten(files_in.files))
    /\ extracted' = [extracted EXCEPT !.result =
                        Some(build_catalog(IntoValues(extracted.by_key, KeyOrder),
                                           files_in.salt))]
    /\ estage' = "done"
    /\ UNCHANGED files_in

InitExtract == CoreIdle /\ RunIdle /\ LexIdle /\ ExtractInit /\ ScanIdle /\ IdMapIdle

NextExtract ==
    \/ TakeMessage /\ UNCHANGED <<core_vars, run_vars, lex_vars, scan_vars, idmap_vars>>
    \/ BuildCatalog /\ UNCHANGED <<core_vars, run_vars, lex_vars, scan_vars, idmap_vars>>

SpecExtract == InitExtract /\ [][NextExtract]_vars

\* The messages of all the files, in the order they are met.
AllExtracted == Flatten(files_in.files)

\* Some key comes twice with different arg specs; the first message that
\* differs from the first occurrence of its key.
Conflicts ==
    {j \in 1..Len(AllExtracted) :
        \E i \in 1..(j - 1) : /\ AllExtracted[i].key = AllExtracted[j].key
                              /\ AllExtracted[i].args # AllExtracted[j].args}

FirstOccurrence(key) ==
    AllExtracted[First({i \in 1..Len(AllExtracted) : AllExtracted[i].key = key})]

ExtractDone == estage = "done"

\* C17: extract_from_files gives one catalog message per distinct key: a key
\* that comes again with the arg specs of its first occurrence is dropped,
\* and a key that comes again with other arg specs, in the same file or a
\* later one, fails with ConflictingArgs and gives no catalog.
C17_OneMessagePerKeyOrConflict ==
    ExtractDone =>
        LET result == Unwrap(extracted.result) IN
        /\ Conflicts # {} =>
              result = ConflictingArgs(AllExtracted[First(Conflicts)].key)
        /\ Conflicts = {} => (result.ok \/ result.kind = "Collision")
        /\ result.ok =>
              LET catalog == result.value.catalog IN
              /\ {catalog[i].key : i \in 1..Len(catalog)}
                    = {AllExtracted[i].key : i \in 1..Len(AllExtracted)}
              /\ \A i \in 1..Len(catalog), j \in 1..Len(catalog) :
                    catalog[i].key = catalog[j].key => i = j
              /\ \A i \in 1..Len(catalog) :
                    catalog[i].args = FirstOccurrence(catalog[i].key).args

\* A key came again in a later file with the same arg specs and the catalog
\* holds it once.
C17_Witness ==
    /\ ExtractDone
    /\ Unwrap(extracted.result).ok
    /\ Len(files_in.files) >= 2
    /\ files_in.files[1][1].key = files_in.files[2][1].key
    /\ files_in.files[1][1].args # <<>>
    /\ Len(Unwrap(extracted.result).value.catalog) < Len(AllExtracted)

(***************************************************************************)
(* One Select or SelectPlural opcode executed against any short case       *)
(* table.  The entry of index i has target i, so the program counter after *)
(* the opcode names the entry taken.  The program, the arguments, the      *)
(* machine with the backend and the outcome of the step are held in the    *)
(* run variables.                                                          *)
(***************************************************************************)
MaxEntries == 3

SelectKeys == {KeyString(0), KeyExact(1), KeyCategory("One"), KeyOther}

SelectTables ==
    {[i \in 1..Len(keys) |-> CaseEntry(keys[i], i - 1)] :
        keys \in UNION {[1..n -> SelectKeys] : n \in 0..MaxEntries}}

SelectOpcodes == {Select(0, 0), SelectPlural(0, "Cardinal", 0)}

SelectValues == {Str("x"), Str("z"), Num(1), Num(2), Num(0 - 1)}

SelectInit ==
    /\ rstage = "selecting"
    /\ \E opcode \in SelectOpcodes, table \in SelectTables :
          run_program = [opcodes |-> <<opcode, End>>, string_pool |-> <<"x">>,
                         number_pool |-> <<>>, case_tables |-> <<table>>,
                         arg_names |-> <<"a">>]
    /\ \E value \in SelectValues : run_args = ("a" :> value)
    /\ \E be \in Backends : run_machine = [m |-> Machine(0, <<>>, ""), backend |-> be]
    /\ run_result = None

\* The iteration of the loop of `execute` that runs the opcode at 0.
ExecSelect ==
    /\ rstage = "selecting"
    /\ run_result' =
          Some([step |-> ExecStep(run_program, run_args, run_machine.backend,
                                  run_machine.m),
                asked |-> /\ run_program.opcodes[1].op = "SelectPlural"
                          /\ SelectPluralWith(run_program, run_args, run_machine.backend,
                                              0, "Cardinal", 0).asked])
    /\ rstage' = "selected"
    /\ UNCHANGED <<run_program, run_args, run_machine>>

InitSelect == CoreIdle /\ SelectInit /\ LexIdle /\ ExtractIdle /\ ScanIdle /\ IdMapIdle

NextSelect ==
    \/ ExecSelect /\ UNCHANGED <<core_vars, lex_vars, extract_vars, scan_vars, idmap_vars>>

SpecSelect == InitSelect /\ [][NextSelect]_vars

\* The table, the opcode and the argument of the run.
SelectTable == run_program.case_tables[1]

SelectOp == run_program.opcodes[1].op

SelectArg == run_args["a"]

EntriesWith(Test(_)) == {i \in 1..Len(SelectTable) : Test(SelectTable[i].key)}

OtherEntries == EntriesWith(LAMBDA key : key.k = "Other")

\* The opcode got an argument of its type, so the table was consulted.
TableConsulted ==
    /\ rstage = "selected"
    /\ \/ SelectOp = "Select" /\ SelectArg.t = "Str"
       \/ SelectOp = "SelectPlural" /\ SelectArg.t = "Num"

\* The step went on at the target of the entry of 1-based index i.
TookEntry(i) ==
    /\ ~Unwrap(run_result).step.done
    /\ Unwrap(run_result).step.m.pc = SelectTable[i].target

StepFailedWith(error) ==
    /\ Unwrap(run_result).step.done
    /\ Unwrap(run_result).step.result = error

\* C21: a Select or SelectPlural executed against a case table that has no
\* Other entry returns InvalidInput("missing other case").
C21_TableWithoutOtherFails ==
    (TableConsulted /\ OtherEntries = {})
        => StepFailedWith(InvalidInput("missing other case"))

ExactEntries ==
    EntriesWith(LAMBDA key : key.k = "Exact" /\ SelectArg.n >= 0 /\ key.n = SelectArg.n)

CategoryEntries ==
    EntriesWith(LAMBDA key : /\ key.k = "Category"
                             /\ key.c = plural_category(run_machine.backend, SelectArg.n))

PluralConsulted == TableConsulted /\ SelectOp = "SelectPlural"

\* C22: SelectPlural takes the first Exact entry equal to a non-negative
\* argument, also when an entry for the backend's category is there; with no
\* such entry the first entry of the backend's category; with none of these
\* the Other entry; and the backend is asked for the category exactly when no
\* Exact entry matched.
C22_PluralTriesExactThenCategoryThenOther ==
    PluralConsulted =>
        /\ ExactEntries # {} => TookEntry(First(ExactEntries))
        /\ (ExactEntries = {} /\ CategoryEntries # {}) => TookEntry(First(CategoryEntries))
        /\ (ExactEntries = {} /\ CategoryEntries = {} /\ OtherEntries # {}) =>
              \E i \in OtherEntries : TookEntry(i)
        /\ (ExactEntries = {} /\ CategoryEntries = {} /\ OtherEntries = {}) =>
              StepFailedWith(InvalidInput("missing other case"))
        /\ Unwrap(run_result).asked <=> (ExactEntries = {})

\* The argument 1 met a table with an entry for the category `one` before
\* an Exact(1) entry, under a backend whose category for 1 is `one`, and
\* the Exact entry was taken.
C22_Witness ==
    /\ PluralConsulted
    /\ ExactEntries # {}
    /\ CategoryEntries # {}
    /\ First(CategoryEntries) < First(ExactEntries)
    /\ TookEntry(First(ExactEntries))

\* C27: when a case table holds more than one Other entry, Select and
\* SelectPlural fall back to the same entry, the first Other entry.
C27_FallbackTakesFirstOther ==
    (TableConsulted /\ Cardinality(OtherEntries) > 1 /\ ~Unwrap(run_result).step.done
     /\ \E i \in OtherEntries : TookEntry(i))
        => TookEntry(First(OtherEntries))

\* C28: after any sequence of inserts the reverse index is the inverse of
\* the entries: reverse[id] = key exactly when entries[key] = id.
C28_ReverseIsInverseOfEntries ==
    istage = "open" =>
        \A key \in BuildKeys, id \in BuildIds :
            (id \in DOMAIN build_ids.reverse /\ build_ids.reverse[id] = key)
                <=> (key \in DOMAIN build_ids.entries /\ build_ids.entries[key] = id)

\* The subtags of the normalized form of the parsed tag, and the indices of
\* its singletons.
NormalizedSubtags == split(parsed.value.normalized)

Singletons == {i \in 2..Len(NormalizedSubtags) : Len(NormalizedSubtags[i]) = 1}

TagAccepted == tstage # "input" /\ parsed.ok

\* C23: in an accepted tag every subtag of two or more characters that
\* follows a singleton is lower case in the normalized form, so that title
\* and upper case are given before the first singleton only, and
\* match_subtags holds the normalized subtags before the first singleton.
C23_CasingStopsAtFirstSingleton ==
    TagAccepted =>
        /\ \A j \in 1..Len(NormalizedSubtags) :
              (Singletons # {} /\ j > First(Singletons) /\ Len(NormalizedSubtags[j]) >= 2)
                  => NormalizedSubtags[j] = to_ascii_lowercase(NormalizedSubtags[j])
        /\ parsed.value.match_subtags =
              SubSeq(NormalizedSubtags, 1,
                     IF Singletons = {} THEN Len(NormalizedSubtags)
                     ELSE First(Singletons) - 1)

(***************************************************************************)
(* parser.rs of the build tool.  The parser works on the token vector      *)
(* lex_all returned; a token is its kind and its text, spans are left out. *)
(* It runs on the lexer variables: lex_input holds the tokens, lexed the   *)
(* value parse_message returned.                                           *)
(***************************************************************************)
MaxTokenChunks == 5

Tk(kind, text) == [kind |-> kind, text |-> text]

Punct(kind) == Tk(kind, "")

\* Pieces of token vectors the inputs are put together from.
TokenChunks ==
    { <<Tk("Text", "a")>>,
      <<Punct("LBrace"), Punct("Dollar"), Tk("Ident", "n")>>,
      <<Punct("Colon"), Tk("Ident", "plural")>>,
      <<Punct("Arrow")>>,
      <<Punct("LBracket"), Tk("Ident", "one"), Punct("RBracket"), Punct("LBrace")>>,
      <<Punct("Star"), Punct("LBracket"), Tk("Ident", "other"), Punct("RBracket"),
        Punct("LBrace")>>,
      <<Punct("LBracket"), Punct("Equals"), Tk("Number", "1"), Punct("RBracket"),
        Punct("LBrace")>>,
      <<Punct("LBrace")>>,
      <<Punct("Equals"), Tk("Number", "-1")>>,
      <<Punct("RBrace")>> }

\* The mode stack of the lexer after it pushed the first n tokens, or
\* <<>> when the lexer cannot push them: text tokens come in text mode
\* only and never two in a row, the other tokens but braces in expression
\* mode only, and a `}` needs an open `{`.
RECURSIVE ModesAfter(_, _)
ModesAfter(tokens, n) ==
    IF n = 0 THEN <<"Text">>
    ELSE LET stack == ModesAfter(tokens, n - 1)
             kind == tokens[n].kind
             top == stack[Len(stack)]
         IN IF stack = <<>> THEN <<>>
            ELSE CASE kind = "LBrace" ->
                        Append(stack, IF top = "Text" THEN "Expr" ELSE "Text")
                   [] kind = "RBrace" ->
                        (IF Len(stack) > 1 THEN PopMode(stack) ELSE <<>>)
                   [] kind = "Text" ->
                        (IF top = "Text" /\ (n = 1 \/ tokens[n - 1].kind # "Text")
                         THEN stack ELSE <<>>)
                   [] OTHER -> (IF top = "Expr" THEN stack ELSE <<>>)

\* Token vectors lex_all returns Ok with.
Lexable(tokens) == ModesAfter(tokens, Len(tokens)) = <<"Text">>

TokenInputs ==
    {tokens \in {Flatten(chunks) :
                    chunks \in UNION {[1..n -> TokenChunks] : n \in 0..MaxTokenChunks}} :
        Lexable(tokens)}

ParseError(text) == [ok |-> FALSE, text |-> text]

\* Parser::peek_is
peek_is(tokens, index, kind) == index < Len(tokens) /\ At(tokens, index).kind = kind

\* Parser::expect
expect(tokens, index, kind) ==
    IF index >= Len(tokens) THEN ParseError("unexpected eof")
    ELSE IF At(tokens, index).kind = kind THEN Parsed(At(tokens, index), index + 1)
    ELSE ParseError("unexpected token")

\* Parser::expect_ident
expect_ident(tokens, index) ==
    IF index >= Len(tokens) THEN ParseError("unexpected eof")
    ELSE IF At(tokens, index).kind = "Ident" THEN Parsed(At(tokens, index).text, index + 1)
    ELSE ParseError("expected identifier")

\* Parser::expect_number
expect_number(tokens, index) ==
    IF index >= Len(tokens) THEN ParseError("unexpected eof")
    ELSE IF At(tokens, index).kind = "Number" THEN Parsed(At(tokens, index).text, index + 1)
    ELSE ParseError("expected number")

\* str::parse::<u32> on the number texts of the model.
ParseU32(text) == IF text = "1" THEN Some(1) ELSE None

\* Parser::parse_case_key.  The two error paths unwrap peek_span(), which
\* panics at the end of the tokens.
parse_case_key(tokens, index) ==
    IF peek_is(tokens, index, "Equals")
    THEN LET number == expect_number(tokens, index + 1) IN
         IF ~number.ok THEN number
         ELSE IF IsSome(ParseU32(number.value))
              THEN Parsed(Exact(Unwrap(ParseU32(number.value))), number.index)
              ELSE IF number.index < Len(tokens) THEN ParseError("invalid exact number")
                   ELSE ParseError("panic")
    ELSE IF peek_is(tokens, index, "Ident")
         THEN IF At(tokens, index).text = "other" THEN Parsed(Other, index + 1)
              ELSE Parsed(Ident(At(tokens, index).text), index + 1)
    ELSE IF peek_is(tokens, index, "Number")
         THEN Parsed(Ident(At(tokens, index).text), index + 1)
    ELSE IF index < Len(tokens) THEN ParseError("expected case key")
         ELSE ParseError("panic")

RECURSIVE MessageLoop(_, _, _, _)
RECURSIVE parse_expr(_, _)
RECURSIVE CasesLoop(_, _, _)

\* The loop of Parser::parse_message (lines 87-113).
MessageLoop(tokens, index, stop_on_rbrace, segments) ==
    IF index >= Len(tokens) THEN Parsed(segments, index)
    ELSE LET token == At(tokens, index) IN
         CASE token.kind = "Text" ->
                MessageLoop(tokens, index + 1, stop_on_rbrace,
                            Append(segments, Text(token.text)))
           [] token.kind = "LBrace" ->
                (LET expr == parse_expr(tokens, index + 1) IN
                 IF ~expr.ok THEN expr
                 ELSE MessageLoop(tokens, expr.index, stop_on_rbrace,
                                  Append(segments, expr.value)))
           [] token.kind = "RBrace" /\ stop_on_rbrace -> Parsed(segments, index)
           [] token.kind = "RBrace" -> ParseError("unexpected closing brace")
           [] OTHER -> ParseError("unexpected token in message")

\* Parser::parse_cases
CasesLoop(tokens, index, cases) ==
    IF index >= Len(tokens) \/ peek_is(tokens, index, "RBrace") THEN Parsed(cases, index)
    ELSE LET is_default == peek_is(tokens, index, "Star")
             at == IF is_default THEN index + 1 ELSE index
             open == expect(tokens, at, "LBracket")
         IN IF ~open.ok THEN open
            ELSE LET key == parse_case_key(tokens, open.index) IN
                 IF ~key.ok THEN key
                 ELSE LET close == expect(tokens, key.index, "RBracket") IN
                      IF ~close.ok THEN close
                      ELSE LET brace == expect(tokens, close.index, "LBrace") IN
                           IF ~brace.ok THEN brace
                           ELSE LET value == MessageLoop(tokens, brace.index, TRUE, <<>>) IN
                                IF ~value.ok THEN value
                                ELSE LET end == expect(tokens, value.index, "RBrace") IN
                                     IF ~end.ok THEN end
                                     ELSE CasesLoop(tokens, end.index,
                                              Append(cases,
                                                  SelectCase(key.value, is_default,
                                                             value.value)))

\* Parser::parse_expr
parse_expr(tokens, index) ==
    LET dollar == expect(tokens, index, "Dollar") IN
    IF ~dollar.ok THEN dollar
    ELSE LET name == expect_ident(tokens, dollar.index) IN
         IF ~name.ok THEN name
         ELSE LET colon == peek_is(tokens, name.index, "Colon")
                  fmt == IF colon THEN expect_ident(tokens, name.index + 1)
                         ELSE Parsed("", name.index)
              IN IF ~fmt.ok THEN fmt
                 ELSE LET formatter == IF colon THEN Some(fmt.value) ELSE None IN
                      IF peek_is(tokens, fmt.index, "Arrow")
                      THEN LET cases == CasesLoop(tokens, fmt.index + 1, <<>>) IN
                           IF ~cases.ok THEN cases
                           ELSE LET end == expect(tokens, cases.index, "RBrace") IN
                                IF ~end.ok THEN end
                                ELSE Parsed(SelectExpr(name.value, formatter, cases.value),
                                            end.index)
                      ELSE LET end == expect(tokens, fmt.index, "RBrace") IN
                           IF ~end.ok THEN end
                           ELSE Parsed(Variable(name.value, formatter), end.index)

\* Parser::parse_message(false) on a new parser: the message or the error.
ParseTokens(tokens) ==
    LET result == MessageLoop(tokens, 0, FALSE, <<>>) IN
    IF result.ok THEN Ok(result.value) ELSE result

ParseInit ==
    /\ xstage = "parsing"
    /\ lex_input \in TokenInputs
    /\ lexed = None

\* parse_message after lex_all returned the tokens.
ParseMessage ==
    /\ xstage = "parsing"
    /\ lexed' = Some(ParseTokens(lex_input))
    /\ xstage' = "parsed"
    /\ UNCHANGED lex_input

InitParse == CoreIdle /\ RunIdle /\ ParseInit /\ ExtractIdle /\ ScanIdle /\ IdMapIdle

NextParse ==
    ParseMessage /\ UNCHANGED <<core_vars, run_vars, extract_vars, scan_vars, idmap_vars>>

SpecParse == InitParse /\ [][NextParse]_vars

\* The select expressions of a message at any depth.
RECURSIVE SelectsOf(_)
SelectsOf(segments) ==
    UNION {IF segments[i].seg = "Select"
           THEN {segments[i]} \cup
                UNION {SelectsOf(segments[i].cases[j].value) :
                          j \in 1..Len(segments[i].cases)}
           ELSE {} : i \in 1..Len(segments)}

\* The tokens hold `->` directly followed by `}`.
ArrowThenRBrace(tokens) ==
    \E i \in 1..(Len(tokens) - 1) :
        tokens[i].kind = "Arrow" /\ tokens[i + 1].kind = "RBrace"

ParseReturned == xstage = "parsed"

WideIds == {0, MaxId, U32_MAX}

WidePrograms ==
    {compile_message(<<Variable("a", None)>>),
     compile_message(<<Text("T"), Variable("n", Some("number"))>>)}

WidePackInputs ==
    {[pack_kind |-> kind, id_map_hash |-> "h1", locale_tag |-> "en",
      parent_tag |-> None, messages |-> messages] :
        kind \in {"Base", "Overlay"},
        messages \in UNION {[ids -> WidePrograms] : ids \in SUBSET WideIds}}

WidePackInit ==
    /\ pstage = "built"
    /\ pack_input \in WidePackInputs
    /\ pack_bytes = Idle
    /\ hash_given \in HashValues
    /\ decoded = Idle

InitWidePack ==
    MsgIdle /\ WidePackInit /\ TagIdle /\ NegIdle /\ ChainIdle /\ LoadIdle /\ ToolIdle

NextWidePack ==
    \/ Encode /\ UNCHANGED <<msg_vars, tag_vars, neg_vars, chain_vars, load_vars, tool_vars>>
    \/ Decode /\ UNCHANGED <<msg_vars, tag_vars, neg_vars, chain_vars, load_vars, tool_vars>>

SpecWidePack == InitWidePack /\ [][NextWidePack]_vars

\* The slots of the message index section of a Base pack.
DenseSlots(bytes) ==
    bytes.sections[CHOOSE i \in 1..Len(bytes.sections) :
                       bytes.sections[i].section_type = SECTION_MESSAGE_INDEX].body.data

\* C25: a pack of kind Base or Overlay encoded from any set of message ids
\* of the u32 range and decoded with its own hash answers lookup with Some
\* exactly for the ids of the input; the dense index of a Base pack has a
\* slot for every id up to the largest one, u32::MAX in the slots of the
\* absent ids and in no other.
C25_LookupFindsExactlyTheIdsPacked ==
    pstage = "decoded" /\ hash_given = pack_input.id_map_hash =>
        /\ decoded.ok
        /\ \A id \in WideIds \cup 0..MaxId :
              IsSome(PackCatalogLookup(decoded.value, id))
                  <=> id \in DOMAIN pack_input.messages
        /\ pack_input.pack_kind = "Base" =>
              /\ \A id \in DOMAIN pack_input.messages :
                    /\ InRange(DenseSlots(pack_bytes), id)
                    /\ At(DenseSlots(pack_bytes), id) # U32_MAX
              /\ \A id \in 0..(Len(DenseSlots(pack_bytes)) - 1) :
                    id \notin DOMAIN pack_input.messages
                        => At(DenseSlots(pack_bytes), id) = U32_MAX

\* ArgType::matches of the core crate, on the names the build tool gives the
\* argument types.
matches(arg_type, value) ==
    CASE arg_type = "Any" -> TRUE
      [] arg_type = "String" -> value.t = "Str"
      [] arg_type = "Number" -> value.t = "Num"
      [] arg_type = "Bool" -> value.t = "Bool"
      [] OTHER -> FALSE

\* An argument bag supplies every argument of the spec with a value of its
\* type.
ArgsMatchSpec(a, spec_args) ==
    \A i \in 1..Len(spec_args) :
        /\ spec_args[i].name \in DOMAIN a
        /\ matches(spec_args[i].arg_type, a[spec_args[i].name])

\* C26: a message validated with no diagnostics, compiled and executed with
\* arguments that match the types of its spec returns Ok.
C26_ValidatedMessageExecutesOk ==
    (stage = "executed" /\ diagnostics = <<>> /\ ArgsMatchSpec(args, MessageSpecArgs))
        => outcome.ok

\* verify_manifest_signature has returned Ok.
ReportedVerified == lstage = "checked" /\ verified.result.ok

\* C30: verify_manifest_signature returns Ok only for a manifest with a
\* signing block whose key id is the expected one, whose algorithm is
\* ed25519 and whose signature verifies under the key over the manifest
\* without its signing field; a manifest with no signing block is not
\* reported as verified.
C30_OkOnlyForAVerifiedSignature ==
    ReportedVerified =>
        /\ IsSome(release.manifest.signing)
        /\ Unwrap(release.manifest.signing).key_id = verified.key_id
        /\ Unwrap(release.manifest.signing).sig_alg = "ed25519"
        /\ parse_signature(Unwrap(release.manifest.signing).manifest_sig).ok
        /\ verify_strict(verified.verifying_key, to_signing_bytes(release.manifest),
                         Unwrap(release.manifest.signing).manifest_sig)

\* The format call was made with a locale that the manifest lists in
\* supported_locales and has a pack for under the same string, and with a
\* key whose message that pack holds.
FormatOfShippedLocale ==
    /\ FormattedParsedLocale
    /\ Contains(release.manifest.supported_locales, walk.requested)
    /\ walk.requested \in DOMAIN release.manifest.mf2_packs
    /\ IsSome(IdMapGet(loaded.value.id_map, walk.key))
    /\ IsSome(PackCatalogLookup(loaded.value.packs[walk.requested],
                                Unwrap(IdMapGet(loaded.value.id_map, walk.key))))

\* C29: a format call with a locale the manifest lists as supported and
\* has a pack for under the same string, and with a key of that pack, finds
\* the pack and does not return MissingLocale, however the manifest spells
\* the locale.
C29_ShippedLocaleIsFound ==
    FormatOfShippedLocale =>
        /\ Contains(walk.catalogs, walk.requested)
        /\ (formatted.ok \/ formatted.kind # "MissingLocale")

====
